---- MODULE Spec2Model ----
(***************************************************************************)
(* A model of the k8-api client library (infinyon/k8-api).                 *)
(*                                                                         *)
(* The module holds several state machines over disjoint groups of         *)
(* variables; each has its own specification:                              *)
(*   SpecDispatch  the request dispatcher of K8Client (client_impl.rs)     *)
(*   SpecWatch     WatchStream::poll_next and K8Client::stream             *)
(*   SpecWatchNow  MetadataClient::watch_stream_now                        *)
(*   SpecApply     MetadataClient::apply                                   *)
(*   SpecUri       the URL builder (uri.rs)                                *)
(*   SpecInMemory  InMemoryClient                                          *)
(*   SpecConnector the connectors of the TLS backends                      *)
(*   SpecList      ListStream::poll_next                                   *)
(*   SpecOpen      the opening of the watch and log streams                *)
(*   SpecConfig    ClientConfigBuilder and the credential builders         *)
(*   SpecLog       LogStream::poll_read                                    *)
(***************************************************************************)
EXTENDS Integers, Sequences, FiniteSets, TLC

VARIABLES
    \* ---- K8Client and its concurrent operations
    host,        \* K8Client.host
    token,       \* K8Client.token : Option<String>
    saFile,      \* the service-account token file, as read_to_string sees it
    pc,          \* per task: idle, wait1, wait2, done
    op,          \* per task: the operation in progress
    sent,        \* per task: the requests put on the wire for this operation
    resps,       \* per task: the responses received for this operation
    hres,        \* per task: what handle_request / handle_request_bytes returned
    result,      \* per task: what the operation returned to its caller
    retried,     \* some operation has already sent a retried request
    afterRetry,  \* per task: the operation started after a retry had been sent
    \* ---- WatchStream over an HTTP body, and K8Client::stream on top of it
    wInput,      \* the bytes the server sends on this response body, in all
    wRest,       \* the bytes of wInput the body stream has not yielded yet
    wUp,         \* the body stream: open, closed (yielded None), failed (yielded Err)
    wBuf,        \* WatchStream.buffer
    wDone,       \* WatchStream.done
    wLast,       \* what the last poll_next returned: none, pending, item, end
    wOut,        \* the documents WatchStream has emitted, in order
    wHeld,       \* some poll has kept an unfinished document for the next poll
    wEvents,     \* the items K8Client::stream has delivered, in order
    \* ---- MetadataClient::watch_stream_now
    nPc,         \* new, listing, chained, watching, ended
    nReqs,       \* the requests the stream has issued, in order
    nList,       \* the list the server returned, if any
    nWatch,      \* the resource version the watch stream was built with
    nOut,        \* the items the stream has delivered, in order
    \* ---- MetadataClient::apply
    aPc,         \* idle, get, create, patch, done, aborted
    aValue,      \* the input object of the call
    aGot,        \* what retrieve_item returned, if it has returned
    aDiff,       \* the shape the diff engine returned, if it was asked
    aCalls,      \* the calls apply has made on the client, in order
    aWrote,      \* what create_item or patch_obj returned, if it has returned
    aResult,     \* what apply returned, if it has returned
    aStored,     \* the object the server holds since an apply created it
    aFirst,      \* what the first of two applies of the same input returned
    \* ---- the URL builder
    uCall,       \* the last call of the URL builder, if any
    uOut,        \* what that call gave
    \* ---- InMemoryClient
    mStore,      \* InMemoryClient.store, as the set of its entries
    mLast,       \* the last call on the client and what it returned, if any
    mMade,       \* per key held: what the create_item that put it there returned
    \* ---- TlsHyperConnector and the connector HyperClientBuilder builds
    cCall,       \* the connection request in progress, if any
    cPc,         \* idle, resolve, dial, handshake, done
    cSockets,    \* the sockets the connector has opened, in order
    cResult,     \* what the connection request returned, if it has returned
    \* ---- ListStream
    lLimit,      \* ListStream.limit
    lArg,        \* ListStream.arg
    lTotal,      \* the number of items the server holds
    lDone,       \* ListStream.done
    lInner,      \* ListStream.inner
    lReqs,       \* the list requests sent, in order
    lOut,        \* the pages the stream has emitted, in order
    lLast,       \* what the last poll_next returned: none, pending, page, end
    lFut,        \* what the last poll of inner returned: none, pending, ok, err
    lPolls,      \* the number of times poll_next has been called
    \* ---- K8Client::stream_of_chunks and the streams built on it
    oFn,         \* the operation that built the stream, or none
    oPc,         \* idle, built, listed, streaming, ended
    oFail,       \* the failure met in the initial phase: none, request, connect
    oItems,      \* the items the stream has yielded, in order
    \* ---- ClientConfigBuilder and the credential builder of the TLS backend
    kBackend,    \* the TLS backend the client is compiled with
    kConfig,     \* the kubeconfig given to ClientConfigBuilder::new, if any
    kPc,         \* idle, configured, tokened, built, failed, free, gone
    kBuilder,    \* the credential builder B, while there is one
    kExternal,   \* ClientConfigBuilder.external_token
    kToken,      \* what ClientConfigBuilder::token returned
    kResult,     \* what the last step returned, if any
    kOps,        \* the calls made on the credential builder, in order
    \* ---- LogStream (k8-client/src/client/log_stream.rs)
    gPc,         \* idle, open, ended, aborted
    gTaken,      \* the chunks the inner stream has yielded
    gBuf,        \* the buffer of the caller after the latest poll_read
    gLast,       \* what the latest poll_read returned
    gRead        \* the bytes the caller has read so far

dvars == <<host, token, saFile, pc, op, sent, resps, hres, result, retried, afterRetry>>

wvars == <<wInput, wRest, wUp, wBuf, wDone, wLast, wOut, wHeld, wEvents>>

nvars == <<nPc, nReqs, nList, nWatch, nOut>>

avars == <<aPc, aValue, aGot, aDiff, aCalls, aWrote, aResult, aStored, aFirst>>

uvars == <<uCall, uOut>>

mvars == <<mStore, mLast, mMade>>

cvars == <<cCall, cPc, cSockets, cResult>>

lvars == <<lLimit, lArg, lTotal, lDone, lInner, lReqs, lOut, lLast, lFut, lPolls>>

ovars == <<oFn, oPc, oFail, oItems>>

kvars == <<kBackend, kConfig, kPc, kBuilder, kExternal, kToken, kResult, kOps>>

gvars == <<gPc, gTaken, gBuf, gLast, gRead>>

vars == <<dvars, wvars, nvars, avars, uvars, mvars, cvars, lvars, ovars, kvars, gvars>>

\* what an operation of the client leaves alone
besideClient == <<wvars, nvars, avars, uvars, mvars, cvars, lvars, ovars, kvars, gvars>>

\* what a poll of a watch stream leaves alone
besideWatch == <<dvars, nvars, avars, uvars, mvars, cvars, lvars, ovars, kvars, gvars>>

\* what a poll of a watch_stream_now stream leaves alone
besideWatchNow == <<dvars, wvars, avars, uvars, mvars, cvars, lvars, ovars, kvars, gvars>>

\* what a step of apply leaves alone
besideApply == <<dvars, wvars, nvars, uvars, mvars, cvars, lvars, ovars, kvars, gvars>>

\* what a call of the URL builder leaves alone
besideUri == <<dvars, wvars, nvars, avars, mvars, cvars, lvars, ovars, kvars, gvars>>

\* what an operation of the in-memory client leaves alone
besideInMemory == <<dvars, wvars, nvars, avars, uvars, cvars, lvars, ovars, kvars, gvars>>

\* what a step of a connector leaves alone
besideConnector == <<dvars, wvars, nvars, avars, uvars, mvars, lvars, ovars, kvars, gvars>>

\* what a poll of the list stream leaves alone
besideList == <<dvars, wvars, nvars, avars, uvars, mvars, cvars, ovars, kvars, gvars>>

\* what a step of a stream being opened leaves alone
besideOpen == <<dvars, wvars, nvars, avars, uvars, mvars, cvars, lvars, kvars, gvars>>

\* what a step of the client configuration leaves alone
besideConfig == <<dvars, wvars, nvars, avars, uvars, mvars, cvars, lvars, ovars, gvars>>

\* what a step of LogStream (k8-client/src/client/log_stream.rs) leaves alone
besideLog == <<dvars, wvars, nvars, avars, uvars, mvars, cvars, lvars, ovars, kvars>>

(***************************************************************************)
(* Strings that are inspected character by character are sequences of      *)
(* one-character strings.                                                  *)
(***************************************************************************)
IsWhitespace(c) == c \in {" ", "\n", "\t"}

RECURSIVE TrimStart(_)
TrimStart(s) ==
    IF s # <<>> /\ IsWhitespace(Head(s)) THEN TrimStart(Tail(s)) ELSE s

RECURSIVE TrimEnd(_)
TrimEnd(s) ==
    IF s # <<>> /\ IsWhitespace(s[Len(s)]) THEN TrimEnd(SubSeq(s, 1, Len(s) - 1)) ELSE s

\* str::trim
Trim(s) == TrimEnd(TrimStart(s))

\* HeaderValue::from_str accepts visible ASCII, space and tab only
HeaderValueOk(s) == \A i \in 1..Len(s) : s[i] # "\n"

\* format!("Bearer {token}")
Bearer(tok) == <<"B", "e", "a", "r", "e", "r", " ">> \o tok

\* Option<T> is a set with at most one element
None == {}
Some(x) == {x}

(***************************************************************************)
(* HTTP vocabulary                                                         *)
(***************************************************************************)
UNAUTHORIZED == 401
NOT_FOUND == 404
CONFLICT == 409

\* StatusCode::is_success
IsSuccess(status) == status >= 200 /\ status < 300

\* the response statuses the server answers with
Statuses == {200, UNAUTHORIZED, NOT_FOUND, CONFLICT}

\* The shapes a response body can have:
\*   typed    the JSON document of the operation's result type, kind included
\*   status   a Status envelope (kind "Status") with an optional code
\*   nokind   a JSON object without a kind field
\*   garbage  bytes that are not JSON
NoBody == [shape |-> "none", code |-> None]

Bodies ==
    {[shape |-> sh, code |-> None] : sh \in {"typed", "nokind", "garbage"}}
        \cup {[shape |-> "status", code |-> c] :
                c \in {None, Some(UNAUTHORIZED), Some(NOT_FOUND), Some(CONFLICT)}}

Responses == [status : Statuses, body : Bodies]

\* serde_json::from_slice::<MetaStatus>: the envelope has required fields
DecodesAsStatus(body) == body.shape = "status"

\* serde_json::from_slice::<T> for the result type T of an operation
DecodesAs(type, body) ==
    CASE type = "K8Obj" -> body.shape \in {"typed", "nokind"}
      [] type = "K8List" -> body.shape = "typed"
      [] type = "VersionInfo" -> body.shape # "garbage"
      [] type = "Map" -> body.shape # "garbage"

\* values.get("kind") of a decoded JSON object
KindOf(body) ==
    CASE body.shape = "status" -> Some("Status")
      [] body.shape = "typed" -> Some("Resource")
      [] OTHER -> None

(***************************************************************************)
(* Operations of K8Client and the request each one builds                  *)
(***************************************************************************)
PublicOps ==
    {"get", "list", "create", "update", "updateStatus", "patch", "delete",
     "serverVersion"}

\* handle_request_bytes is a private method that none of the operations calls;
\* it is modelled as an entry point of its own
InternalOps == {"request_bytes"}

Ops == PublicOps \cup InternalOps

Method(o) ==
    CASE o \in {"get", "list", "serverVersion"} -> "GET"
      [] o \in {"create", "request_bytes"} -> "POST"
      [] o \in {"update", "updateStatus"} -> "PUT"
      [] o = "patch" -> "PATCH"
      [] o = "delete" -> "DELETE"

Path(o) ==
    CASE o \in {"get", "update", "patch", "delete"} -> "item"
      [] o = "updateStatus" -> "item/status"
      [] o \in {"list", "create", "request_bytes"} -> "items"
      [] o = "serverVersion" -> "version"

RequestBody(o) ==
    CASE o \in {"create", "update", "updateStatus", "request_bytes"} -> "object"
      [] o = "patch" -> "patch"
      [] OTHER -> "empty"

ResultType(o) ==
    CASE o \in {"get", "create", "update", "updateStatus", "patch", "request_bytes"}
            -> "K8Obj"
      [] o = "list" -> "K8List"
      [] o = "delete" -> "Map"
      [] o = "serverVersion" -> "VersionInfo"

NoAuth == [present |-> FALSE, value |-> <<>>]

BuildRequest(h, o) ==
    [method |-> Method(o), url |-> <<h, Path(o)>>, body |-> RequestBody(o),
     auth |-> NoAuth]

\* K8Client::finish_request: install the stored token, if any
finish_request(req, tok) ==
    IF tok = None THEN req
    ELSE [req EXCEPT !.auth =
            [present |-> TRUE, value |-> Bearer(CHOOSE x \in tok : TRUE)]]

finish_request_ok(tok) ==
    tok = None \/ HeaderValueOk(Bearer(CHOOSE x \in tok : TRUE))

\* which dispatcher an operation goes through
Dispatcher(o) ==
    IF o \in PublicOps THEN "handle_request" ELSE "handle_request_bytes"

(***************************************************************************)
(* Results                                                                 *)
(***************************************************************************)
Res(tag, code, doc) == [tag |-> tag, code |-> code, doc |-> doc]
NoRes == Res("none", None, NoBody)

ErrorTags == {"err_status", "err_json", "err_hyper", "err_header", "err_kind"}

\* the non-2xx branch: the body as MetaStatus becomes the error value
ErrorOfBody(body) ==
    IF DecodesAsStatus(body)
    THEN Res("err_status", body.code, body)
    ELSE Res("err_json", None, NoBody)

\* the 2xx branch: the body as the expected type
OkOfBody(type, body) ==
    IF DecodesAs(type, body)
    THEN Res("ok", None, body)
    ELSE Res("err_json", None, NoBody)

\* what a dispatcher makes of one response
ParseResponse(type, r) ==
    IF IsSuccess(r.status) THEN OkOfBody(type, r.body) ELSE ErrorOfBody(r.body)

\* a dispatcher that retried every failed request
ShouldRetry_AnyFailure(status) == ~IsSuccess(status)

\* handle_request_bytes: the condition of the one retry
ShouldRetry(status) == status = UNAUTHORIZED

\* a dispatcher that kept the freshly read token in the client
TokenAfterRetry_Stored(tok, fresh) == fresh

\* the stored token after a retry with the freshly read one: &self is not
\* mutated, the fresh bearer lives in the retried request only
TokenAfterRetry(tok, fresh) == tok

\* a retrieve_item that took every Status envelope for absence
IsNotFound_AnyStatus(h) == h.tag = "err_status"

\* retrieve_item: a MetaStatus error with code 404 is absence
IsNotFound(h) == h.tag = "err_status" /\ h.code = Some(NOT_FOUND)

retrieve_item(h) ==
    CASE h.tag = "ok" -> h
      [] IsNotFound(h) -> Res("absent", None, NoBody)
      [] OTHER -> h

\* a delete that wrapped every body with a kind as Deleted
delete_item_AlwaysDeleted(h) ==
    IF h.tag # "ok" THEN h
    ELSE IF KindOf(h.doc) = None THEN Res("err_kind", None, NoBody)
    ELSE Res("deleted", h.doc.code, h.doc)

\* delete_item_with_option: classify the decoded map by its kind field
delete_item_with_option(h) ==
    IF h.tag # "ok" THEN h
    ELSE IF KindOf(h.doc) = None THEN Res("err_kind", None, NoBody)
    ELSE IF KindOf(h.doc) = Some("Status") THEN Res("deleted", h.doc.code, h.doc)
    ELSE Res("foreground", None, h.doc)

\* what the operation returns, given what its dispatcher returned
OpResult(o, h) ==
    CASE o = "get" -> retrieve_item(h)
      [] o = "delete" -> delete_item_with_option(h)
      [] OTHER -> h

(***************************************************************************)
(* The dispatcher as a state machine. Tasks share one client; each runs    *)
(* one operation at a time.                                               *)
(***************************************************************************)
Tasks == {"t1", "t2"}

Hosts == {"https://k.local"}

\* tokens the configuration can hold at construction
ConfigTokens == {None, Some(<<"A">>)}

\* contents of the service-account token file; unreadable when absent
SaFiles ==
    {[readable |-> FALSE, text |-> <<>>],
     [readable |-> TRUE, text |-> <<" ", "B", "\n">>],
     [readable |-> TRUE, text |-> <<"B", "\n", "C">>]}

\* no watch stream has been opened
WIdle ==
    /\ wInput = <<>>
    /\ wRest = <<>>
    /\ wUp = "open"
    /\ wBuf = <<>>
    /\ wDone = FALSE
    /\ wLast = "none"
    /\ wOut = <<>>
    /\ wHeld = FALSE
    /\ wEvents = <<>>

\* watch_stream_now has not been called
NIdle ==
    /\ nPc = "idle"
    /\ nReqs = <<>>
    /\ nList = {}
    /\ nWatch = {}
    /\ nOut = <<>>

\* apply has not been called
AIdle ==
    /\ aPc = "idle"
    /\ aValue = {}
    /\ aGot = {}
    /\ aDiff = {}
    /\ aCalls = <<>>
    /\ aWrote = {}
    /\ aResult = {}
    /\ aStored = {}
    /\ aFirst = {}

\* no URL has been built
UIdle ==
    /\ uCall = {}
    /\ uOut = {}

\* InMemoryClient::new: an empty store, nothing called
MIdle ==
    /\ mStore = {}
    /\ mLast = {}
    /\ mMade = {}

\* no connection has been requested
CIdle ==
    /\ cCall = {}
    /\ cPc = "idle"
    /\ cSockets = <<>>
    /\ cResult = {}

\* no list stream has been built
LIdle ==
    /\ lLimit = 1
    /\ lArg = {}
    /\ lTotal = 0
    /\ lDone = FALSE
    /\ lInner = {}
    /\ lReqs = <<>>
    /\ lOut = <<>>
    /\ lLast = "none"
    /\ lFut = "none"
    /\ lPolls = 0

\* no stream has been built
OIdle ==
    /\ oFn = "none"
    /\ oPc = "idle"
    /\ oFail = "none"
    /\ oItems = <<>>

\* no client configuration has been read
KIdle ==
    /\ kBackend = "none"
    /\ kConfig = {}
    /\ kPc = "idle"
    /\ kBuilder = {}
    /\ kExternal = {}
    /\ kToken = {}
    /\ kResult = {}
    /\ kOps = <<>>

\* no log stream open
GIdle ==
    /\ gPc = "idle"
    /\ gTaken = <<>>
    /\ gBuf = <<>>
    /\ gLast = {}
    /\ gRead = <<>>

\* K8Client::new
NewClient ==
    /\ host \in Hosts
    /\ token \in ConfigTokens
    /\ saFile \in SaFiles
    /\ pc = [t \in Tasks |-> "idle"]
    /\ op = [t \in Tasks |-> "none"]
    /\ sent = [t \in Tasks |-> <<>>]
    /\ resps = [t \in Tasks |-> <<>>]
    /\ hres = [t \in Tasks |-> NoRes]
    /\ result = [t \in Tasks |-> NoRes]
    /\ retried = FALSE
    /\ afterRetry = [t \in Tasks |-> FALSE]

\* a client just built, with no watch stream opened
DInit == NewClient /\ WIdle /\ NIdle /\ AIdle /\ UIdle /\ MIdle /\ CIdle /\ LIdle /\ OIdle /\ KIdle /\ GIdle

\* the dispatcher returns h: the operation completes
Complete(t, h) ==
    /\ pc' = [pc EXCEPT ![t] = "done"]
    /\ hres' = [hres EXCEPT ![t] = h]
    /\ result' = [result EXCEPT ![t] = OpResult(op[t], h)]

\* an operation is called: build the request, authorize it, send it
Start(t, o) ==
    /\ pc[t] = "idle"
    /\ op' = [op EXCEPT ![t] = o]
    /\ afterRetry' = [afterRetry EXCEPT ![t] = retried]
    /\ resps' = [resps EXCEPT ![t] = <<>>]
    /\ IF finish_request_ok(token)
       THEN /\ sent' = [sent EXCEPT ![t] = <<finish_request(BuildRequest(host, o), token)>>]
            /\ pc' = [pc EXCEPT ![t] = "wait1"]
            /\ UNCHANGED <<hres, result>>
       ELSE /\ sent' = [sent EXCEPT ![t] = <<>>]
            /\ pc' = [pc EXCEPT ![t] = "done"]
            /\ hres' = [hres EXCEPT ![t] = Res("err_header", None, NoBody)]
            /\ result' = [result EXCEPT ![t] = Res("err_header", None, NoBody)]
    /\ UNCHANGED <<host, token, saFile, retried>>
    /\ UNCHANGED besideClient

\* handle_request: the first response is final
RespondPlain(t, r) ==
    /\ pc[t] = "wait1"
    /\ Dispatcher(op[t]) = "handle_request"
    /\ resps' = [resps EXCEPT ![t] = <<r>>]
    /\ Complete(t, ParseResponse(ResultType(op[t]), r))
    /\ UNCHANGED <<host, token, saFile, op, sent, retried, afterRetry>>
    /\ UNCHANGED besideClient

\* handle_request_bytes: the first response; a 401 is retried once with the
\* token read from the service-account file at this moment
RespondFirst(t, r) ==
    /\ pc[t] = "wait1"
    /\ Dispatcher(op[t]) = "handle_request_bytes"
    /\ resps' = [resps EXCEPT ![t] = <<r>>]
    /\ IF IsSuccess(r.status)
       THEN /\ Complete(t, OkOfBody(ResultType(op[t]), r.body))
            /\ UNCHANGED <<token, sent, retried>>
       ELSE IF ShouldRetry(r.status) /\ saFile.readable
       THEN LET fresh == Trim(saFile.text)
                bearer == Bearer(fresh)
            IN  IF HeaderValueOk(bearer)
                THEN /\ sent' = [sent EXCEPT ![t] = Append(@,
                            [sent[t][1] EXCEPT !.auth = [present |-> TRUE, value |-> bearer]])]
                     /\ pc' = [pc EXCEPT ![t] = "wait2"]
                     /\ retried' = TRUE
                     /\ token' = TokenAfterRetry(token, Some(fresh))
                     /\ UNCHANGED <<hres, result>>
                ELSE /\ Complete(t, Res("err_header", None, NoBody))
                     /\ UNCHANGED <<token, sent, retried>>
       ELSE /\ Complete(t, ErrorOfBody(r.body))
            /\ UNCHANGED <<token, sent, retried>>
    /\ UNCHANGED <<host, saFile, op, afterRetry>>
    /\ UNCHANGED besideClient

\* handle_request_bytes: the response to the retried request is final
RespondRetry(t, r) ==
    /\ pc[t] = "wait2"
    /\ resps' = [resps EXCEPT ![t] = Append(@, r)]
    /\ Complete(t, ParseResponse(ResultType(op[t]), r))
    /\ UNCHANGED <<host, token, saFile, op, sent, retried, afterRetry>>
    /\ UNCHANGED besideClient

\* self.client.request(..).await? fails: no response at all
TransportFail(t) ==
    /\ pc[t] \in {"wait1", "wait2"}
    /\ Complete(t, Res("err_hyper", None, NoBody))
    /\ UNCHANGED <<host, token, saFile, op, sent, resps, retried, afterRetry>>
    /\ UNCHANGED besideClient

\* the caller takes the result; the task is free for its next operation
Return(t) ==
    /\ pc[t] = "done"
    /\ pc' = [pc EXCEPT ![t] = "idle"]
    /\ op' = [op EXCEPT ![t] = "none"]
    /\ sent' = [sent EXCEPT ![t] = <<>>]
    /\ resps' = [resps EXCEPT ![t] = <<>>]
    /\ hres' = [hres EXCEPT ![t] = NoRes]
    /\ result' = [result EXCEPT ![t] = NoRes]
    /\ afterRetry' = [afterRetry EXCEPT ![t] = FALSE]
    /\ UNCHANGED <<host, token, saFile, retried>>
    /\ UNCHANGED besideClient

\* the kubelet rotates (or removes) the service-account token file
RotateTokenFile(f) ==
    /\ f # saFile
    /\ saFile' = f
    /\ UNCHANGED <<host, token, pc, op, sent, resps, hres, result, retried, afterRetry>>
    /\ UNCHANGED besideClient

\* one task uses the client, one operation after the other; the server answers
\* with any status and any body
DNext ==
    \/ \E o \in Ops : Start("t1", o)
    \/ \E r \in Responses : RespondPlain("t1", r)
    \/ \E r \in Responses : RespondFirst("t1", r)
    \/ \E r \in Responses : RespondRetry("t1", r)
    \/ TransportFail("t1")
    \/ Return("t1")
    \/ \E f \in SaFiles : RotateTokenFile(f)

SpecDispatch == DInit /\ [][DNext]_vars

\* the client is shared by concurrent tasks; the server answers each request
\* with success or with 401
SharedResponses ==
    [status : {200, UNAUTHORIZED},
     body : {[shape |-> "typed", code |-> None],
             [shape |-> "status", code |-> Some(UNAUTHORIZED)]}]

SNext ==
    \/ \E t \in Tasks, o \in Ops : Start(t, o)
    \/ \E t \in Tasks, r \in SharedResponses : RespondPlain(t, r)
    \/ \E t \in Tasks, r \in SharedResponses : RespondFirst(t, r)
    \/ \E t \in Tasks, r \in SharedResponses : RespondRetry(t, r)
    \/ \E t \in Tasks : TransportFail(t)
    \/ \E t \in Tasks : Return(t)
    \/ \E f \in SaFiles : RotateTokenFile(f)

SpecShared == DInit /\ [][SNext]_vars

(***************************************************************************)
(* Claims about the dispatcher                                             *)
(***************************************************************************)
LastResp(t) == resps[t][Len(resps[t])]

\* C1 (as claimed): for every public operation, a first response with status
\* 401 while the service-account token file is readable makes the dispatcher
\* reissue the same request once, with Authorization set to "Bearer " and the
\* trimmed file content; a 2xx answer to the reissued request that decodes makes
\* the operation succeed with that body.
C1_RetryOnUnauthorized ==
    [][\A t \in Tasks :
        /\ ( /\ op[t] \in PublicOps
             /\ pc[t] = "wait1"
             /\ Len(resps[t]) = 0 /\ Len(resps'[t]) = 1
             /\ resps'[t][1].status = UNAUTHORIZED
             /\ saFile.readable
             /\ HeaderValueOk(Trim(saFile.text)) )
           => ( /\ pc'[t] = "wait2"
                /\ sent'[t] = <<sent[t][1],
                        [sent[t][1] EXCEPT !.auth =
                            [present |-> TRUE, value |-> Bearer(Trim(saFile.text))]]>> )
        /\ ( /\ op[t] \in PublicOps
             /\ pc[t] = "wait2" /\ pc'[t] = "done"
             /\ Len(resps'[t]) = 2
             /\ IsSuccess(resps'[t][2].status)
             /\ DecodesAs(ResultType(op[t]), resps'[t][2].body) )
           => hres'[t] = Res("ok", None, resps'[t][2].body)
    ]_vars

\* C2: one operation sends at most two requests; a second request is sent only
\* after a first response with status 401; a first response with another status
\* ends the operation; the outcome of the second attempt ends the operation.
C2_AtMostOneRetry ==
    \A t \in Tasks :
        /\ Len(sent[t]) <= 2
        /\ Len(resps[t]) <= Len(sent[t])
        /\ Len(sent[t]) = 2 =>
              Len(resps[t]) >= 1 /\ resps[t][1].status = UNAUTHORIZED
        /\ (Len(resps[t]) >= 1 /\ resps[t][1].status # UNAUTHORIZED) =>
              Len(sent[t]) = 1 /\ pc[t] = "done"
        /\ Len(resps[t]) = 2 => pc[t] = "done"
        /\ pc[t] = "wait2" => Len(sent[t]) = 2 /\ Len(resps[t]) = 1

\* a second 401, answering the retried request, has ended the operation
C2_Witness ==
    \E t \in Tasks :
        /\ pc[t] = "done"
        /\ Len(sent[t]) = 2 /\ Len(resps[t]) = 2
        /\ resps[t][2].status = UNAUTHORIZED
        /\ hres[t].tag \in ErrorTags

AuthOfToken(tok) ==
    IF tok = None THEN NoAuth
    ELSE [present |-> TRUE, value |-> Bearer(CHOOSE x \in tok : TRUE)]

\* C3: no step of any task changes the client's host or token, and the first
\* request of every operation carries the stored token and host, also when a
\* retry with a freshly read token has been sent before.
C3_StoredCredentialsImmutable ==
    [][ /\ host' = host
        /\ token' = token
        /\ \A t \in Tasks :
              (pc[t] = "idle" /\ pc'[t] = "wait1") =>
                  /\ sent'[t][1].auth = AuthOfToken(token)
                  /\ sent'[t][1].url[1] = host
    ]_vars

\* one task has retried with a token that differs from the stored one, and
\* another task has started its operation after that retry
C3_Witness ==
    \E t \in Tasks, u \in Tasks :
        /\ t # u
        /\ Len(sent[t]) = 2
        /\ sent[t][2].auth # AuthOfToken(token)
        /\ token # None
        /\ pc[u] = "wait1"
        /\ afterRetry[u]
        /\ sent[u][1].auth = AuthOfToken(token)

\* C4: get returns absence exactly when the response is non-2xx and its body is
\* a Status envelope with code 404; every other failure (an envelope with
\* another code or none, a body that is no envelope, no response) is an error;
\* a 2xx response is never absence, and its decoded body is the present object.
C4_GetAbsence ==
    \A t \in Tasks :
        (pc[t] = "done" /\ op[t] = "get") =>
            LET answered == Len(resps[t]) > 0 /\ hres[t].tag # "err_hyper"
                notFoundBody ==
                    /\ answered
                    /\ ~IsSuccess(LastResp(t).status)
                    /\ LastResp(t).body.shape = "status"
                    /\ LastResp(t).body.code = Some(NOT_FOUND)
            IN  /\ result[t].tag = "absent" <=> notFoundBody
                /\ (~notFoundBody /\ (~answered \/ ~IsSuccess(LastResp(t).status)))
                      => result[t].tag \in ErrorTags
                /\ (answered /\ IsSuccess(LastResp(t).status)
                        /\ DecodesAs("K8Obj", LastResp(t).body))
                      => result[t] = Res("ok", None, LastResp(t).body)

\* get has answered absence for a 404 response carrying a Status with code 404
C4_Witness ==
    \E t \in Tasks :
        /\ pc[t] = "done" /\ op[t] = "get"
        /\ LastResp(t).status = NOT_FOUND
        /\ LastResp(t).body = [shape |-> "status", code |-> Some(NOT_FOUND)]
        /\ result[t].tag = "absent"

\* C5 (as claimed): a non-2xx response makes the dispatcher return an error: one
\* that carries the Status envelope and its code when the body is one, and a
\* generic HTTP error with the response's status code when the body is none.
C5_ErrorCarriesStatus ==
    \A t \in Tasks :
        ( /\ pc[t] = "done"
          /\ Dispatcher(op[t]) = "handle_request"
          /\ Len(resps[t]) = 1
          /\ ~IsSuccess(LastResp(t).status) )
        => IF LastResp(t).body.shape = "status"
           THEN hres[t] = Res("err_status", LastResp(t).body.code, LastResp(t).body)
           ELSE hres[t].tag = "err_http" /\ hres[t].code = Some(LastResp(t).status)

\* ------------------------------------------------------------------
\* WatchStream (hyper/wstream.rs) and K8Client::stream (client_impl.rs)
\* ------------------------------------------------------------------

\* const SEPARATOR: u8 = b'\n'
SEPARATOR == 10

\* longest response body that is explored
MaxLen == 4

\* bytes of a body: the separator, a byte of a well formed watch event and a
\* byte no watch event contains
GoodBytes == {97}

Bytes == {SEPARATOR} \cup GoodBytes \cup {120}

RECURSIVE BodiesUpTo(_)
BodiesUpTo(n) ==
    IF n = 0 THEN {<<>>}
    ELSE LET shorter == BodiesUpTo(n - 1)
         IN shorter \cup {Append(b, c) : b \in {s \in shorter : Len(s) = n - 1}, c \in Bytes}

\* every way the body stream can hand over the bytes s in consecutive
\* non-empty chunks
RECURSIVE ChunkSeqs(_)
ChunkSeqs(s) ==
    IF s = <<>> THEN {<<>>}
    ELSE UNION {{<<SubSeq(s, 1, k)>> \o rest : rest \in ChunkSeqs(SubSeq(s, k + 1, Len(s)))}
                : k \in 1..Len(s)}

\* last_buffer.extend_from_slice(&chunk) for each chunk the loop receives
RECURSIVE extend_from_slices(_, _)
extend_from_slices(last_buffer, chunks) ==
    IF chunks = <<>> THEN last_buffer
    ELSE extend_from_slices(last_buffer \o Head(chunks), Tail(chunks))

\* the place of the last separator instead of the first
position_Last(last_buffer) ==
    IF \E i \in 1..Len(last_buffer) : last_buffer[i] = SEPARATOR
    THEN CHOOSE i \in 1..Len(last_buffer) :
            /\ last_buffer[i] = SEPARATOR
            /\ \A j \in (i + 1)..Len(last_buffer) : last_buffer[j] # SEPARATOR
    ELSE 0

\* last_buffer.iter().position(|&c| c == SEPARATOR), one based; 0 when absent
position(last_buffer) ==
    IF \E i \in 1..Len(last_buffer) : last_buffer[i] = SEPARATOR
    THEN CHOOSE i \in 1..Len(last_buffer) :
            /\ last_buffer[i] = SEPARATOR
            /\ \A j \in 1..(i - 1) : last_buffer[j] # SEPARATOR
    ELSE 0

\* a buffer without separator that is kept for the next poll
Retain_Dropped(last_buffer) == <<>>

\* self.set_last_buffer(last_buffer)
Retain(last_buffer) == last_buffer

\* the second half of poll_next: what it returns and the buffer it keeps,
\* from the bytes gathered so far and the done flag
emit(last_buffer, done) ==
    IF Len(last_buffer) > 0
    THEN LET i == position(last_buffer)
         IN IF i > 0
            THEN [ret |-> "item",
                  doc |-> SubSeq(last_buffer, 1, i - 1),
                  buf |-> SubSeq(last_buffer, i + 1, Len(last_buffer))]
            ELSE IF done
                 THEN [ret |-> "item", doc |-> last_buffer, buf |-> <<>>]
                 ELSE [ret |-> "pending", doc |-> <<>>, buf |-> Retain(last_buffer)]
    ELSE [ret |-> IF done THEN "end" ELSE "pending", doc |-> <<>>, buf |-> <<>>]

\* serde_json::from_slice::<K8Watch<S>>(&chunk) succeeds
Decodable(doc) ==
    /\ doc # <<>>
    /\ \A i \in 1..Len(doc) : doc[i] \in GoodBytes

\* the closure of K8Client::stream: one item per document, an event or an error
DecodeItem(doc) ==
    IF Decodable(doc) THEN [ok |-> TRUE, doc |-> doc] ELSE [ok |-> FALSE, doc |-> <<>>]

\* a stream that would pass on only the documents that decode
Deliver_SkipErrors(events, doc) ==
    IF Decodable(doc) THEN Append(events, DecodeItem(doc)) ELSE events

\* .map(...) of K8Client::stream over the documents of the WatchStream
Deliver(events, doc) == Append(events, DecodeItem(doc))

\* WatchStream::new(body) on the body of a watch response
NewWatchStream ==
    /\ wInput \in BodiesUpTo(MaxLen)
    /\ wRest = wInput
    /\ wUp = "open"
    /\ wBuf = <<>>
    /\ wDone = FALSE
    /\ wLast = "none"
    /\ wOut = <<>>
    /\ wHeld = FALSE
    /\ wEvents = <<>>

\* a client that has just opened a watch stream
WInit == NewClient /\ NewWatchStream /\ NIdle /\ AIdle /\ UIdle /\ MIdle /\ CIdle /\ LIdle /\ OIdle /\ KIdle /\ GIdle

\* the rest of poll_next once the loop over the body stream is left
Finish(last_buffer, done) ==
    LET e == emit(last_buffer, done)
    IN /\ wDone' = done
       /\ wBuf' = e.buf
       /\ wLast' = e.ret
       /\ wOut' = IF e.ret = "item" THEN Append(wOut, e.doc) ELSE wOut
       /\ wHeld' = (wHeld \/ (e.ret = "pending" /\ e.buf # <<>>))
       /\ wEvents' = IF e.ret = "item" THEN Deliver(wEvents, e.doc) ELSE wEvents

\* poll_next while the body is open: the loop receives n bytes in some chunks
\* and then finds the body stream pending
PollPending(n) ==
    /\ ~wDone
    /\ wUp = "open"
    /\ n \in 0..Len(wRest)
    /\ \E chunks \in ChunkSeqs(SubSeq(wRest, 1, n)) :
           Finish(extend_from_slices(wBuf, chunks), FALSE)
    /\ wRest' = SubSeq(wRest, n + 1, Len(wRest))
    /\ UNCHANGED <<wInput, wUp>>
    /\ UNCHANGED besideWatch

\* poll_next while the body is open: the loop receives all remaining bytes and
\* then the end of the body
PollClose ==
    /\ ~wDone
    /\ wUp = "open"
    /\ \E chunks \in ChunkSeqs(wRest) :
           Finish(extend_from_slices(wBuf, chunks), TRUE)
    /\ wRest' = <<>>
    /\ wUp' = "closed"
    /\ UNCHANGED wInput
    /\ UNCHANGED besideWatch

\* a read error after which the bytes gathered so far are still emitted
on_error_Flush(last_buffer) == emit(last_buffer, TRUE)

\* the Err arm of the loop: return Poll::Ready(None); last_buffer is
\* dropped and self.buffer stays the empty buffer put there on entry
on_error(last_buffer) == [ret |-> "end", doc |-> <<>>, buf |-> <<>>]

\* poll_next while the body is open: the loop receives n bytes and then a read
\* error; done is set and the stream ends without looking at the buffer
PollError(n) ==
    /\ ~wDone
    /\ wUp = "open"
    /\ n \in 0..Len(wRest)
    /\ wRest' = SubSeq(wRest, n + 1, Len(wRest))
    /\ wUp' = "failed"
    /\ wDone' = TRUE
    /\ \E chunks \in ChunkSeqs(SubSeq(wRest, 1, n)) :
           LET e == on_error(extend_from_slices(wBuf, chunks))
           IN /\ wBuf' = e.buf
              /\ wLast' = e.ret
              /\ wOut' = IF e.ret = "item" THEN Append(wOut, e.doc) ELSE wOut
              /\ wEvents' = IF e.ret = "item" THEN Deliver(wEvents, e.doc) ELSE wEvents
    /\ UNCHANGED <<wInput, wHeld>>
    /\ UNCHANGED besideWatch

\* poll_next once done is set: the body is not polled any more
PollDone ==
    /\ wDone
    /\ Finish(wBuf, TRUE)
    /\ UNCHANGED <<wInput, wRest, wUp>>
    /\ UNCHANGED besideWatch

WNext ==
    \/ \E n \in 0..MaxLen : PollPending(n)
    \/ PollClose
    \/ \E n \in 0..MaxLen : PollError(n)
    \/ PollDone

SpecWatch == WInit /\ [][WNext]_vars

\* ------------------------------------------------------------------
\* Claims about the watch stream
\* ------------------------------------------------------------------

\* the documents of a body by definition: the bytes between separators, and
\* the bytes after the last separator when there are any
RECURSIVE SplitDocs(_)
SplitDocs(b) ==
    IF b = <<>> THEN <<>>
    ELSE IF \A i \in 1..Len(b) : b[i] # SEPARATOR THEN <<b>>
    ELSE LET k == CHOOSE i \in 1..Len(b) :
                      b[i] = SEPARATOR /\ \A j \in 1..(i - 1) : b[j] # SEPARATOR
         IN <<SubSeq(b, 1, k - 1)>> \o SplitDocs(SubSeq(b, k + 1, Len(b)))

IsPrefix(s, t) == Len(s) <= Len(t) /\ s = SubSeq(t, 1, Len(s))

\* the documents poll_next emits when the whole body b and its end arrive in
\* the first poll: the loop gathers b, sets done, and every poll emits from
\* what is left of the buffer
RECURSIVE DocsFrom(_)
DocsFrom(buf) ==
    LET e == emit(buf, TRUE)
    IN IF e.ret = "item" THEN <<e.doc>> \o DocsFrom(e.buf) ELSE <<>>

AllAtOnce(b) == DocsFrom(extend_from_slices(<<>>, <<b>>))

\* apple\nbanana\ngrape\n
Apple == <<97, 112, 112, 108, 101>>

Banana == <<98, 97, 110, 97, 110, 97>>

Grape == <<103, 114, 97, 112, 101>>

Fruits == Apple \o <<SEPARATOR>> \o Banana \o <<SEPARATOR>> \o Grape \o <<SEPARATOR>>

WatchClosedCleanly == wLast = "end" /\ wUp = "closed"

\* C6: when the body ends with a clean close, the documents emitted are
\* exactly the separator-delimited documents of the concatenated bytes, in
\* order and without the separator, one per separator plus the non-empty
\* residual, followed by the end of the stream; until then the documents
\* emitted are a prefix of them; apple\nbanana\ngrape\n gives apple, banana,
\* grape.
C6_DocumentsBySeparator ==
    /\ WatchClosedCleanly => (wOut = SplitDocs(wInput) /\ wBuf = <<>> /\ wRest = <<>>)
    /\ wUp # "failed" => IsPrefix(wOut, SplitDocs(wInput))
    /\ \A i \in 1..Len(wOut) : \A j \in 1..Len(wOut[i]) : wOut[i][j] # SEPARATOR
    /\ AllAtOnce(Fruits) = <<Apple, Banana, Grape>>

\* a body with two separators and a residual after the last one has been
\* emitted to its end
C6_Witness ==
    /\ WatchClosedCleanly
    /\ Len(wOut) = 3
    /\ wInput[Len(wInput)] # SEPARATOR

\* C7: however the bytes of a body are split into chunks and however the
\* polls fall between them, the documents emitted at the clean end are those
\* emitted when the body arrives as a single chunk.
C7_ChunkingIrrelevant ==
    WatchClosedCleanly => wOut = AllAtOnce(wInput)

\* a body of several documents has ended after a chunk boundary fell inside
\* a document
C7_Witness ==
    /\ WatchClosedCleanly
    /\ wHeld
    /\ Len(wOut) >= 2

\* C9: every document emitted by the WatchStream is delivered as exactly one
\* item, an event when it decodes and an error when it does not, in the
\* order received; an error does not end the stream, which ends only with
\* the body, and at a clean end every document of the body has been
\* delivered.
C9_DecodeErrorPerEvent ==
    /\ Len(wEvents) = Len(wOut)
    /\ \A i \in 1..Len(wOut) :
           /\ wEvents[i].ok = Decodable(wOut[i])
           /\ wEvents[i].ok => wEvents[i].doc = wOut[i]
    /\ wLast = "end" => wUp \in {"closed", "failed"}
    /\ WatchClosedCleanly => Len(wEvents) = Len(SplitDocs(wInput))

\* an event has been delivered after an error
C9_Witness ==
    /\ WatchClosedCleanly
    /\ \E i \in 1..Len(wEvents) : \E j \in (i + 1)..Len(wEvents) :
           ~wEvents[i].ok /\ wEvents[j].ok

\* the bytes the body stream has yielded so far
Received == SubSeq(wInput, 1, Len(wInput) - Len(wRest))

\* the documents of b that are closed by a separator
CompleteDocs(b) ==
    IF \A i \in 1..Len(b) : b[i] # SEPARATOR THEN <<>>
    ELSE LET k == CHOOSE i \in 1..Len(b) :
                      b[i] = SEPARATOR /\ \A j \in (i + 1)..Len(b) : b[j] # SEPARATOR
         IN IF k = 1 THEN <<>> ELSE SplitDocs(SubSeq(b, 1, k - 1))

\* C21: when the body stream yields a read error, the stream ends at that
\* poll: no document is emitted at or after the error, not even the partial
\* document in the buffer, and every later poll returns the end of the
\* stream without polling the body again.
C21_ReadErrorEndsStream ==
    [][wUp' = "failed" =>
          /\ wOut' = wOut
          /\ wEvents' = wEvents
          /\ wLast' = "end"
          /\ wBuf' = <<>>
          /\ wDone'
          /\ wUp = "failed" => wRest' = wRest]_vars

\* a read error came while a partial document was held and nothing had been
\* emitted: nothing is emitted
C21_Witness ==
    /\ wUp = "failed"
    /\ wLast = "end"
    /\ wHeld
    /\ wOut = <<>>
    /\ Received # <<>>
    /\ \A i \in 1..Len(Received) : Received[i] # SEPARATOR

\* C26: no complete document is dropped: every document whose separator was
\* received before a read error, in the poll of the error or in an earlier
\* one, has been emitted when the stream ends.
C26_NoCompleteDocumentDropped ==
    wUp = "failed" => wOut = CompleteDocs(Received)

\* ------------------------------------------------------------------
\* MetadataClient::watch_stream_now (k8-metadata-client/src/client.rs)
\* ------------------------------------------------------------------

\* most items in the initial list
MaxItems == 2

\* most items the watch delivers
MaxEvents == 2

Items == {"a", "b"}

ResourceVersions == {"41", "42"}

\* K8Watch::ADDED, MODIFIED, DELETED
WatchTypes == {"ADDED", "MODIFIED", "DELETED"}

K8Watch(type, item) == [type |-> type, item |-> item]

\* the objects a watch can report: the listed ones and one created later
WatchEvents == {K8Watch(t, i) : t \in WatchTypes, i \in Items \cup {"c"}}

\* the item lists a server returns: no object twice
ItemLists ==
    {l \in UNION {[1..n -> Items] : n \in 0..MaxItems} :
        \A i, j \in 1..Len(l) : l[i] = l[j] => i = j}

\* K8List with its ListMetadata
K8Lists == [items : ItemLists, resource_version : ResourceVersions]

\* a request of the stream: the list, or the watch with its resource version
NowRequest(o, rv) == [op |-> o, resource_version |-> rv]

\* an item of the stream: a batch of events or an error, with the resource
\* version of the watch it comes from
NowItem(src, ok, since, events) ==
    [src |-> src, ok |-> ok, since |-> since, events |-> events]

\* a watch that is not told where to start
WatchSince_Unset(list) == None

\* self.watch_stream_since(namespace, Some(resource_version))
WatchSince(list) == Some(list.resource_version)

\* item_now_list.items.into_iter().map(|item| Ok(K8Watch::ADDED(item))).collect()
items_list(list) == [i \in 1..Len(list.items) |-> K8Watch("ADDED", list.items[i])]

\* watch_stream_now(ns): the stream is built, nothing is sent yet
NInit ==
    /\ NewClient
    /\ WIdle
    /\ AIdle
    /\ UIdle
    /\ MIdle
    /\ CIdle
    /\ LIdle
    /\ OIdle
    /\ KIdle
    /\ GIdle
    /\ nPc = "new"
    /\ nReqs = <<>>
    /\ nList = None
    /\ nWatch = None
    /\ nOut = <<>>

\* first poll: retrieve_items_with_option(namespace, None) is sent
NowList ==
    /\ nPc = "new"
    /\ nPc' = "listing"
    /\ nReqs' = Append(nReqs, NowRequest("list", None))
    /\ UNCHANGED <<nList, nWatch, nOut>>
    /\ UNCHANGED besideWatchNow

\* the list arrives: the watch stream is built from its resource version and
\* the listed items are delivered as one batch of ADDED events
NowListOk(list) ==
    /\ nPc = "listing"
    /\ nPc' = "chained"
    /\ nList' = Some(list)
    /\ nWatch' = WatchSince(list)
    /\ nOut' = Append(nOut, NowItem("list", TRUE, None, items_list(list)))
    /\ UNCHANGED nReqs
    /\ UNCHANGED besideWatchNow

\* the list fails: once(ready(Err(err))), one error and the end
NowListErr ==
    /\ nPc = "listing"
    /\ nPc' = "ended"
    /\ nOut' = Append(nOut, NowItem("list", FALSE, None, <<>>))
    /\ UNCHANGED <<nReqs, nList, nWatch>>
    /\ UNCHANGED besideWatchNow

\* the chain moves on to the watch stream, whose first poll sends the watch
NowWatchOpen ==
    /\ nPc = "chained"
    /\ nPc' = "watching"
    /\ nReqs' = Append(nReqs, NowRequest("watch", nWatch))
    /\ UNCHANGED <<nList, nWatch, nOut>>
    /\ UNCHANGED besideWatchNow

\* the watch delivers an item
NowWatchItem(e) ==
    /\ nPc = "watching"
    /\ Len(nOut) <= MaxEvents
    /\ nOut' = Append(nOut, NowItem("watch", TRUE, nReqs[Len(nReqs)].resource_version, <<e>>))
    /\ UNCHANGED <<nPc, nReqs, nList, nWatch>>
    /\ UNCHANGED besideWatchNow

\* the watch ends, and with it the stream
NowWatchEnd ==
    /\ nPc = "watching"
    /\ nPc' = "ended"
    /\ UNCHANGED <<nReqs, nList, nWatch, nOut>>
    /\ UNCHANGED besideWatchNow

NNext ==
    \/ NowList
    \/ \E list \in K8Lists : NowListOk(list)
    \/ NowListErr
    \/ NowWatchOpen
    \/ \E e \in WatchEvents : NowWatchItem(e)
    \/ NowWatchEnd

SpecWatchNow == NInit /\ [][NNext]_vars

\* the only element of a one element set
TheOne(S) == CHOOSE x \in S : TRUE

\* C8: the stream first issues the list; its first item carries one ADDED
\* event per listed item, in list order; the watch is requested only after
\* that, from the resource version of the list, and every later item is an
\* item of that watch, so no watch event comes before or between the ADDED
\* events of the list.
C8_ListThenWatch ==
    /\ nReqs # <<>> => nReqs[1] = NowRequest("list", None)
    /\ Len(nReqs) <= 2
    /\ Len(nReqs) = 2 =>
          /\ nList # None
          /\ nOut # <<>>
          /\ nReqs[2] = NowRequest("watch", Some(TheOne(nList).resource_version))
    /\ nOut # <<>> =>
          /\ nReqs # <<>>
          /\ nOut[1].src = "list"
          /\ nOut[1].ok = (nList # None)
          /\ nList # None =>
                /\ Len(nOut[1].events) = Len(TheOne(nList).items)
                /\ \A i \in 1..Len(nOut[1].events) :
                      nOut[1].events[i] = K8Watch("ADDED", TheOne(nList).items[i])
    /\ \A k \in 2..Len(nOut) :
          /\ nOut[k].src = "watch"
          /\ nList # None
          /\ nOut[k].since = Some(TheOne(nList).resource_version)

\* two listed objects have been delivered as ADDED and the watch has then
\* delivered an event
C8_Witness ==
    /\ Len(nOut) >= 2
    /\ Len(nOut[1].events) = 2
    /\ nOut[2].events[1].type = "MODIFIED"

\* ------------------------------------------------------------------
\* MetadataClient::apply (k8-metadata-client/src/client.rs)
\* ------------------------------------------------------------------

\* kinds of the catalogue: a Service, a Job and a Deployment
Kinds == {"Service", "Job", "Deployment"}

\* Crd.group of the kind
Group(kind) ==
    CASE kind = "Service" -> "core"
      [] kind = "Job" -> "batch"
      [] kind = "Deployment" -> "apps"

\* a merge type that ignores the group
for_spec_JsonMerge(group) == "JsonMerge"

\* PatchMergeType::for_spec
for_spec(group) ==
    IF group = "core" \/ group = "apps" THEN "StrategicMerge" ELSE "JsonMerge"

\* the specs of a kind: only a Service has a cluster_ip, which is empty in an
\* input that leaves the allocation to the server
KindSpecs(kind) ==
    [cluster_ip : IF kind = "Service" THEN {"", "10.0.0.1"} ELSE {""},
     ports : {"9092", "9093"}]

LabelSets == {"none", "app=x"}

\* InputObjectMeta, as far as it is serialized
InputObjectMetas == [name : {"x"}, namespace : {"default"}, labels : LabelSets]

\* ObjectMeta, as far as it is serialized: the server adds uid and
\* resourceVersion
ObjectMetas ==
    [name : {"x"}, namespace : {"default"}, labels : LabelSets,
     uid : {"u-1"}, resource_version : {"41"}]

\* DefaultHeader {}: no field
DefaultHeader == <<>>

\* InputK8Obj<S>
InputK8Objs ==
    UNION {[kind : {k}, metadata : InputObjectMetas, spec : KindSpecs(k),
            header : {DefaultHeader}] : k \in Kinds}

\* K8Obj<S> as the server returns it for a kind
K8Objs(kind) ==
    [kind : {kind}, metadata : ObjectMetas, spec : KindSpecs(kind),
     header : {DefaultHeader}]

\* errors of the client that matter to apply
ApiNotFound == Res("err_status", Some(NOT_FOUND), NoBody)

ApiConflict == Res("err_status", Some(CONFLICT), NoBody)

TransportError == Res("err_hyper", None, NoBody)

ClientErrors == {ApiNotFound, ApiConflict, TransportError}

\* ClientError::not_found
not_found(err) == err.tag = "err_status" /\ err.code = Some(NOT_FOUND)

\* ClientError::patch_error()
patch_error == Res("err_patch", None, NoBody)

\* ClientError::from(DiffError::DiffValue)
diff_error == Res("err_diff", None, NoBody)

\* Spec::make_same returns: the one of DeploymentSpec is todo!()
make_same_returns(kind) == kind # "Deployment"

\* Spec::make_same: ServiceSpec forgets its cluster_ip when the other has
\* none, the default does nothing
make_same(kind, self, other) ==
    IF kind = "Service" /\ other.cluster_ip = ""
    THEN [self EXCEPT !.cluster_ip = ""]
    ELSE self

\* serde_json::to_value(DiffableK8Obj::new(metadata, spec, header)): a JSON
\* object with the keys metadata and spec and the flattened keys of the header
DiffableK8Obj(metadata, spec, header) ==
    [type |-> "object", fields |-> [metadata |-> metadata, spec |-> spec] @@ header]

\* the result of Changes::diff
Diff(shape, patch) == [shape |-> shape, patch |-> patch]

\* the PatchObject of two JSON objects, kept as the pair it is computed from
PatchObject(old, new) == [old |-> old.fields, new |-> new.fields]

\* Value::diff; patchable tells whether PatchObject::diff returns a patch
ValueDiff(old, new, patchable) ==
    IF old = new THEN Diff("None", None)
    ELSE IF old.type = "null" THEN Diff("Replace", None)
    ELSE IF new.type # "object" THEN Diff("Replace", None)
    ELSE IF old.type = "object" /\ patchable
         THEN Diff("Patch", Some(PatchObject(old, new)))
         ELSE Diff("Error", None)

\* a call of apply on the client
Call(o, metadata, body, merge) ==
    [op |-> o, metadata |-> metadata, body |-> body, merge |-> merge]

\* what apply returns: ApplyResult::None, Created, Patched, or an error
Applied(tag, obj) == [tag |-> tag, obj |-> obj, err |-> None]

ApplyErr(err) == [tag |-> "Err", obj |-> None, err |-> Some(err)]

\* what retrieve_item returns
Got(ok, obj, err) == [ok |-> ok, obj |-> obj, err |-> err]

GetResults(value) ==
    {Got(TRUE, Some(o), None) : o \in K8Objs(value.kind)}
        \cup {Got(FALSE, None, Some(e)) : e \in ClientErrors}

\* what create_item and patch_obj return
WriteResults(value) == GetResults(value)

\* apply from the return of retrieve_item to its next await or its return
AfterGet(value, got, patchable) ==
    IF got.ok
    THEN LET old_item == CHOOSE o \in got.obj : TRUE
             old_spec == make_same(value.kind, old_item.spec, value.spec)
             new_obj == DiffableK8Obj(value.metadata, value.spec, value.header)
             old_obj == DiffableK8Obj(old_item.metadata, old_spec, old_item.header)
             diff == ValueDiff(old_obj, new_obj, patchable)
         IN IF ~make_same_returns(value.kind)
            THEN [pc |-> "aborted", diff |-> None, calls |-> <<>>, result |-> None]
            ELSE CASE diff.shape = "None" ->
                        [pc |-> "done", diff |-> Some(diff), calls |-> <<>>,
                         result |-> Some(Applied("None", None))]
                   [] diff.shape = "Patch" ->
                        [pc |-> "patch", diff |-> Some(diff),
                         calls |-> <<Call("patch", value.metadata, diff.patch,
                                          for_spec(Group(value.kind)))>>,
                         result |-> None]
                   [] diff.shape = "Error" ->
                        [pc |-> "done", diff |-> Some(diff), calls |-> <<>>,
                         result |-> Some(ApplyErr(diff_error))]
                   [] OTHER ->
                        [pc |-> "done", diff |-> Some(diff), calls |-> <<>>,
                         result |-> Some(ApplyErr(patch_error))]
    ELSE LET err == CHOOSE e \in got.err : TRUE
         IN IF not_found(err)
            THEN [pc |-> "create", diff |-> None,
                  calls |-> <<Call("create", value.metadata, Some(value), "-")>>,
                  result |-> None]
            ELSE [pc |-> "done", diff |-> None, calls |-> <<>>,
                  result |-> Some(ApplyErr(err))]

\* a client on which nothing has been applied yet
AInit ==
    /\ NewClient
    /\ WIdle
    /\ NIdle
    /\ AIdle
    /\ UIdle
    /\ MIdle
    /\ CIdle
    /\ LIdle
    /\ OIdle
    /\ KIdle
    /\ GIdle

\* apply(value): retrieve_item(&value.metadata) is called
ApplyStart(value) ==
    /\ aPc = "idle"
    /\ aPc' = "get"
    /\ aValue' = Some(value)
    /\ aCalls' = Append(aCalls, Call("get", value.metadata, None, "-"))
    /\ UNCHANGED <<aGot, aDiff, aWrote, aResult, aStored, aFirst>>
    /\ UNCHANGED besideApply

\* retrieve_item returns: the objects are compared, or the error is looked at;
\* an object this client has created and nobody has changed is the one found
ApplyGot(got, patchable) ==
    /\ aPc = "get"
    /\ aStored # None => got = Got(TRUE, aStored, None)
    /\ LET value == CHOOSE v \in aValue : TRUE
       IN /\ got \in GetResults(value)
          /\ LET after == AfterGet(value, got, patchable)
             IN /\ aPc' = after.pc
                /\ aDiff' = after.diff
                /\ aCalls' = aCalls \o after.calls
                /\ aResult' = after.result
    /\ aGot' = Some(got)
    /\ UNCHANGED <<aValue, aWrote, aStored, aFirst>>
    /\ UNCHANGED besideApply

\* create_item returns
ApplyCreated(r) ==
    /\ aPc = "create"
    /\ r \in WriteResults(CHOOSE v \in aValue : TRUE)
    /\ aPc' = "done"
    /\ aResult' = IF r.ok THEN Some(Applied("Created", r.obj))
                  ELSE Some(ApplyErr(CHOOSE e \in r.err : TRUE))
    /\ aWrote' = Some(r)
    /\ aStored' = r.obj
    /\ UNCHANGED <<aValue, aGot, aDiff, aCalls, aFirst>>
    /\ UNCHANGED besideApply

\* patch_obj returns
ApplyPatched(r) ==
    /\ aPc = "patch"
    /\ r \in WriteResults(CHOOSE v \in aValue : TRUE)
    /\ aPc' = "done"
    /\ aResult' = IF r.ok THEN Some(Applied("Patched", r.obj))
                  ELSE Some(ApplyErr(CHOOSE e \in r.err : TRUE))
    /\ aWrote' = Some(r)
    /\ UNCHANGED <<aValue, aGot, aDiff, aCalls, aStored, aFirst>>
    /\ UNCHANGED besideApply

\* apply(value) once more, right after the apply that created the object
ApplyAgain ==
    /\ aPc = "done"
    /\ aFirst = None
    /\ aStored # None
    /\ aFirst' = aResult
    /\ aPc' = "get"
    /\ aCalls' = <<Call("get", (CHOOSE v \in aValue : TRUE).metadata, None, "-")>>
    /\ aGot' = None
    /\ aDiff' = None
    /\ aWrote' = None
    /\ aResult' = None
    /\ UNCHANGED <<aValue, aStored>>
    /\ UNCHANGED besideApply

AllResults == UNION {GetResults(v) : v \in InputK8Objs}

ANext ==
    \/ \E value \in InputK8Objs : ApplyStart(value)
    \/ \E got \in AllResults, patchable \in BOOLEAN : ApplyGot(got, patchable)
    \/ \E r \in AllResults : ApplyCreated(r)
    \/ \E r \in AllResults : ApplyPatched(r)
    \/ ApplyAgain

SpecApply == AInit /\ [][ANext]_vars

\* ------------------------------------------------------------------
\* Claims about apply
\* ------------------------------------------------------------------

CallsOf(o) == Cardinality({i \in 1..Len(aCalls) : aCalls[i].op = o})

\* the merge type the kind patches with by default
DefaultMerge(kind) ==
    IF Group(kind) \in {"core", "apps"} THEN "StrategicMerge" ELSE "JsonMerge"

\* the spec of the existing object after the normalization of its kind
Normalized(value, old) ==
    IF value.kind = "Service" /\ value.spec.cluster_ip = ""
    THEN [cluster_ip |-> "", ports |-> old.spec.ports]
    ELSE old.spec

\* {metadata, spec, header} of the normalized existing object and of the
\* input do not differ
NothingToPatch(value, old) ==
    /\ old.metadata = value.metadata
    /\ Normalized(value, old) = value.spec
    /\ old.header = value.header

\* the result that wraps what create_item or patch_obj returned
Wrapped(tag) ==
    LET wrote == TheOne(aWrote)
    IN IF wrote.ok THEN Applied(tag, wrote.obj) ELSE ApplyErr(TheOne(wrote.err))

CreatedAsAsked ==
    /\ aStored # None
    /\ TheOne(aStored).metadata.labels = TheOne(aValue).metadata.labels
    /\ TheOne(aStored).spec.ports = TheOne(aValue).spec.ports
    /\ TheOne(aValue).kind # "Service" =>
          TheOne(aStored).spec.cluster_ip = TheOne(aValue).spec.cluster_ip

\* C11: when apply has created an object as asked and the same input is
\* applied again with nothing changed in between, the second apply, if the
\* diff engine answers, returns Unchanged and has made no call beside its
\* get; for a Service also when the server has allocated a cluster_ip.
C11_ApplyTwiceUnchanged ==
    (/\ aFirst # None
     /\ aPc = "done"
     /\ CreatedAsAsked
     /\ aDiff # None
     /\ TheOne(aDiff).shape # "Error") =>
        /\ TheOne(aFirst).tag = "Created"
        /\ TheOne(aResult).tag = "None"
        /\ CallsOf("create") = 0
        /\ CallsOf("patch") = 0

\* ------------------------------------------------------------------
\* Claims about delete
\* ------------------------------------------------------------------

UriKinds == {"Pod", "Node", "Job", "StorageClass"}

\* Spec::metadata(): the Crd of the kind
CrdOf(kind) ==
    CASE kind = "Pod" -> [group |-> "core", version |-> "v1", plural |-> "pods"]
      [] kind = "Node" -> [group |-> "core", version |-> "v1", plural |-> "nodes"]
      [] kind = "Job" -> [group |-> "batch", version |-> "v1", plural |-> "jobs"]
      [] kind = "StorageClass" ->
            [group |-> "storage.k8s.io", version |-> "v1", plural |-> "storageclasses"]

\* a builder for which every kind is namespaced
NAME_SPACED_Always(kind) == TRUE

\* Spec::NAME_SPACED: true unless the kind overrides it
NAME_SPACED(kind) == kind \notin {"Node", "StorageClass"}

\* NameSpace::All and NameSpace::Named
NsAll == [all |-> TRUE, name |-> "all"]

Named(n) == [all |-> FALSE, name |-> n]

UriHosts == {"https://localhost"}

\* names of namespaces; one has a blank, which no URL may contain
NsNames == {"default", "my ns"}

ItemNames == {"test"}

SubResources == {None, Some("/status")}

\* strings that Uri's parser refuses
Unparsable(piece) == piece = "my ns"

\* ListOptions, three of its fields in their order of declaration; every
\* field is an Option
ListOptionsSet ==
    [continu : {None, Some("c1")}, limit : {None, Some("100")}, watch : {None, Some("true")}]

\* the fields of a record of options as serde sees them
FieldsOf(opt) ==
    <<[k |-> "continue", v |-> opt.continu],
      [k |-> "limit", v |-> opt.limit],
      [k |-> "watch", v |-> opt.watch]>>

IsPresent(field) == field.v # None

RECURSIVE JoinPairs(_)
JoinPairs(fields) ==
    IF fields = <<>> THEN <<>>
    ELSE <<Head(fields).k, "=", CHOOSE x \in Head(fields).v : TRUE>>
            \o (IF Len(fields) > 1 THEN <<"&">> ELSE <<>>)
            \o JoinPairs(Tail(fields))

\* serde_qs::to_string: key=value of the fields that are present, joined by &
qs_to_string(opt) == JoinPairs(SelectSeq(FieldsOf(opt), IsPresent))

\* "?" followed by the serialized options, when options are given
query_of(options) ==
    IF options = None THEN <<>>
    ELSE <<"?">> \o qs_to_string(CHOOSE o \in options : TRUE)

\* prefix_uri
prefix_uri(crd, h, namespace, options) ==
    LET api_prefix == IF crd.group = "core" THEN <<"api">> ELSE <<"apis", "/", crd.group>>
        query == query_of(options)
    IN IF namespace.all
       THEN <<h, "/">> \o api_prefix \o <<"/", crd.version, "/", crd.plural>> \o query
       ELSE <<h, "/">> \o api_prefix
               \o <<"/", crd.version, "/", "namespaces", "/", namespace.name, "/", crd.plural>>
               \o query

\* uri_value.parse::<Uri>()
ParsesAsUri(uri_value) == \A i \in 1..Len(uri_value) : ~Unparsable(uri_value[i])

\* what a call of the builder gives: a URL, an error, or a panic
Built(status, uri) == [status |-> status, uri |-> uri]

\* an item_uri that writes the query before the subresource
item_uri_QueryFirst(kind, h, name, namespace, sub_resource, query_params) ==
    LET ns == IF NAME_SPACED(kind) THEN Named(namespace) ELSE NsAll
        prefix == prefix_uri(CrdOf(kind), h, ns, None)
        sub == IF sub_resource = None THEN <<>> ELSE <<CHOOSE x \in sub_resource : TRUE>>
        query == query_of(query_params)
        uri_value == prefix \o <<"/", name>> \o query \o sub
    IN IF ParsesAsUri(uri_value) THEN Built("ok", uri_value) ELSE Built("err", <<>>)

\* item_uri
item_uri(kind, h, name, namespace, sub_resource, query_params) ==
    LET ns == IF NAME_SPACED(kind) THEN Named(namespace) ELSE NsAll
        prefix == prefix_uri(CrdOf(kind), h, ns, None)
        sub == IF sub_resource = None THEN <<>> ELSE <<CHOOSE x \in sub_resource : TRUE>>
        query == query_of(query_params)
        uri_value == prefix \o <<"/", name>> \o sub \o query
    IN IF ParsesAsUri(uri_value) THEN Built("ok", uri_value) ELSE Built("err", <<>>)

\* items_uri: the parse is unwrapped
items_uri(kind, h, namespace, list_options) ==
    LET ns == IF NAME_SPACED(kind) THEN namespace ELSE NsAll
        uri_value == prefix_uri(CrdOf(kind), h, ns, list_options)
    IN IF ParsesAsUri(uri_value) THEN Built("ok", uri_value) ELSE Built("panic", <<>>)

\* the arguments of a call of the builder
UriCall(fn, kind, h, name, namespace, sub_resource, options) ==
    [fn |-> fn, kind |-> kind, host |-> h, name |-> name, namespace |-> namespace,
     sub_resource |-> sub_resource, options |-> options]

OptionChoices == {None} \cup {Some(o) : o \in ListOptionsSet}

NameSpaces == {NsAll} \cup {Named(n) : n \in NsNames}

UInit ==
    /\ NewClient
    /\ WIdle
    /\ NIdle
    /\ AIdle
    /\ UIdle
    /\ MIdle
    /\ CIdle
    /\ LIdle
    /\ OIdle
    /\ KIdle
    /\ GIdle

\* a call of prefix_uri
CallPrefixUri(kind, h, namespace, options) ==
    /\ uCall' = Some(UriCall("prefix_uri", kind, h, "-", namespace, None, options))
    /\ uOut' = Some(Built("ok", prefix_uri(CrdOf(kind), h, namespace, options)))
    /\ UNCHANGED besideUri

\* a call of items_uri
CallItemsUri(kind, h, namespace, options) ==
    /\ uCall' = Some(UriCall("items_uri", kind, h, "-", namespace, None, options))
    /\ uOut' = Some(items_uri(kind, h, namespace, options))
    /\ UNCHANGED besideUri

\* a call of item_uri
CallItemUri(kind, h, name, n, sub_resource, query_params) ==
    /\ uCall' = Some(UriCall("item_uri", kind, h, name, Named(n), sub_resource, query_params))
    /\ uOut' = Some(item_uri(kind, h, name, n, sub_resource, query_params))
    /\ UNCHANGED besideUri

UNext ==
    \/ \E kind \in UriKinds, h \in UriHosts, namespace \in NameSpaces, o \in OptionChoices :
          CallPrefixUri(kind, h, namespace, o)
    \/ \E kind \in UriKinds, h \in UriHosts, namespace \in NameSpaces, o \in OptionChoices :
          CallItemsUri(kind, h, namespace, o)
    \/ \E kind \in UriKinds, h \in UriHosts, name \in ItemNames, n \in NsNames,
          sub \in SubResources, o \in OptionChoices :
          CallItemUri(kind, h, name, n, sub, o)

SpecUri == UInit /\ [][UNext]_vars

\* ------------------------------------------------------------------
\* Claims about the URL builder
\* ------------------------------------------------------------------

Contains(uri, piece) == \E i \in 1..Len(uri) : uri[i] = piece

AllAbsent(opt) == opt.continu = None /\ opt.limit = None /\ opt.watch = None

\* C13 (as claimed): a URL built from a record of options whose fields are
\* all absent contains no question mark, and an absent option leaves neither
\* its key nor a bare question mark in the URL.
C13_AbsentOptionsLeaveNothing ==
    (uOut # None /\ TheOne(uOut).status = "ok") =>
        LET call == TheOne(uCall)
            uri == TheOne(uOut).uri
        IN /\ (call.options # None /\ AllAbsent(TheOne(call.options))) =>
                 ~Contains(uri, "?")
           /\ call.options # None =>
                 /\ TheOne(call.options).continu = None => ~Contains(uri, "continue")
                 /\ TheOne(call.options).limit = None => ~Contains(uri, "limit")
                 /\ TheOne(call.options).watch = None => ~Contains(uri, "watch")

\* C14: an item URL is the collection URL of the same kind, host and
\* namespace built without options, then "/" and the name, then the
\* subresource if one is given, then "?" and the serialized query if query
\* parameters are given.
C14_ItemUrlExtendsCollectionUrl ==
    (uOut # None /\ TheOne(uCall).fn = "item_uri" /\ TheOne(uOut).status = "ok") =>
        LET call == TheOne(uCall)
            collection == items_uri(call.kind, call.host, call.namespace, None)
            sub == IF call.sub_resource = None THEN <<>> ELSE <<TheOne(call.sub_resource)>>
            query == IF call.options = None THEN <<>>
                     ELSE <<"?">> \o qs_to_string(TheOne(call.options))
        IN /\ collection.status = "ok"
           /\ TheOne(uOut).uri = collection.uri \o <<"/", call.name>> \o sub \o query

\* an item URL with a subresource and a query of two parameters was built
C14_Witness ==
    /\ uOut # None
    /\ TheOne(uCall).fn = "item_uri"
    /\ TheOne(uOut).status = "ok"
    /\ TheOne(uCall).sub_resource = Some("/status")
    /\ TheOne(uCall).options = Some([continu |-> None, limit |-> Some("100"), watch |-> Some("true")])
    /\ Contains(TheOne(uOut).uri, "&")

\* the collection URL as the claim writes it
CollectionUrl(h, group, version, plural, namespaced, namespace) ==
    LET segment == IF namespaced /\ ~namespace.all
                   THEN <<"namespaces", "/", namespace.name, "/", plural>>
                   ELSE <<plural>>
    IN IF group = "core"
       THEN <<h, "/", "api", "/", version, "/">> \o segment
       ELSE <<h, "/", "apis", "/", group, "/", version, "/">> \o segment

\* C15: the collection URL is host/api/version/segment for the core group and
\* host/apis/group/version/segment otherwise, the segment being
\* namespaces/ns/plural exactly for a namespaced kind with a named namespace
\* and plural otherwise; options only add a query behind it.
C15_CollectionUrlShape ==
    (uOut # None /\ TheOne(uCall).fn = "items_uri" /\ TheOne(uOut).status = "ok") =>
        LET call == TheOne(uCall)
            uri == TheOne(uOut).uri
            expected ==
                CASE call.kind = "Pod" ->
                        CollectionUrl(call.host, "core", "v1", "pods", TRUE, call.namespace)
                  [] call.kind = "Node" ->
                        CollectionUrl(call.host, "core", "v1", "nodes", FALSE, call.namespace)
                  [] call.kind = "Job" ->
                        CollectionUrl(call.host, "batch", "v1", "jobs", TRUE, call.namespace)
                  [] call.kind = "StorageClass" ->
                        CollectionUrl(call.host, "storage.k8s.io", "v1", "storageclasses",
                                      FALSE, call.namespace)
        IN /\ Len(uri) >= Len(expected)
           /\ SubSeq(uri, 1, Len(expected)) = expected
           /\ call.options = None => uri = expected
           /\ Len(uri) > Len(expected) => uri[Len(expected) + 1] = "?"
           /\ call.kind \in {"Pod", "Node"} => ~Contains(uri, "apis")
           /\ call.kind \in {"Node", "StorageClass"} => ~Contains(uri, "namespaces")

\* the collection URL of a kind that is not namespaced was built for a named
\* namespace
C15_Witness ==
    /\ uOut # None
    /\ TheOne(uCall).fn = "items_uri"
    /\ TheOne(uCall).kind = "StorageClass"
    /\ TheOne(uCall).namespace = Named("default")
    /\ TheOne(uOut).status = "ok"

\* ------------------------------------------------------------------
\* InMemoryClient (k8-metadata-client/src/in_memory.rs)
\* ------------------------------------------------------------------

\* the spec types the store is exercised with
MemKinds == {"Service", "Job"}

MemNamespaces == {"default", "other"}

MemNames == {"a"}

MemSpecs == {"s1", "s2"}

\* S::Status: its default and one that update_status may set
MemStatuses == {"", "lb"}

MemLabelSets == {{}, {"app"}}

\* Spec::api_version
api_version(kind) == IF kind = "Service" THEN "v1" ELSE "batch/v1"

\* any K8Meta: a name and a namespace
MemMetas == [name: MemNames, namespace: MemNamespaces]

\* the objects create_item is given
MemInputs(kind) ==
    [api_version: {api_version(kind)}, kind: {kind},
     metadata: [name: MemNames, namespace: MemNamespaces, labels: MemLabelSets],
     spec: MemSpecs]

\* the status updates update_status is given
MemUpdates(kind) == [metadata: MemMetas, status: MemStatuses \ {""}]

\* ItemKey::new with the namespace left out of the key
ItemKey_NameOnly(kind, metadata) ==
    [crd |-> kind, ns |-> "", name |-> metadata.name]

\* ItemKey::new::<S>(metadata)
ItemKey_new(kind, metadata) ==
    [crd |-> kind, ns |-> metadata.namespace, name |-> metadata.name]

\* ObjectMeta { name, namespace, ..Default::default() }
NamedObjectMeta(name, namespace) ==
    [name |-> name, namespace |-> namespace, uid |-> "", labels |-> {}]

\* K8Obj { api_version, kind, metadata, spec, ..Default::default() }
MemK8Obj(apiVersion, kind, metadata, spec) ==
    [api_version |-> apiVersion, kind |-> kind, metadata |-> metadata,
     spec |-> spec, header |-> DefaultHeader, status |-> ""]

\* serde_json::to_value(&k8_obj): camelCase keys, the header flattened
to_value(k8_obj) ==
    [apiVersion |-> k8_obj.api_version,
     kind |-> k8_obj.kind,
     metadata |-> [name |-> k8_obj.metadata.name,
                   namespace |-> k8_obj.metadata.namespace,
                   uid |-> k8_obj.metadata.uid,
                   labels |-> k8_obj.metadata.labels],
     spec |-> k8_obj.spec,
     status |-> k8_obj.status]

\* serde_json::from_value::<K8Obj<S>>(item_value)
from_value(item_value) ==
    [api_version |-> item_value.apiVersion,
     kind |-> item_value.kind,
     metadata |-> [name |-> item_value.metadata.name,
                   namespace |-> item_value.metadata.namespace,
                   uid |-> item_value.metadata.uid,
                   labels |-> item_value.metadata.labels],
     spec |-> item_value.spec,
     header |-> DefaultHeader,
     status |-> item_value.status]

MemOk(v) == [ok |-> TRUE, value |-> v]

\* InMemoryError::NotFound
MemNotFound == [ok |-> FALSE, error |-> "NotFound"]

\* HashMap::get
StoreGet(store, item_key) == {e.value : e \in {x \in store : x.key = item_key}}

\* a remove that empties the map
StoreRemove_Clear(store, item_key) == {}

\* HashMap::remove
StoreRemove(store, item_key) == {x \in store : x.key # item_key}

\* HashMap::insert
StoreInsert(store, item_key, item_value) ==
    StoreRemove(store, item_key) \cup {[key |-> item_key, value |-> item_value]}

\* a call on the client and what it returned
MemCall(fn, kind, metadata, res) ==
    [fn |-> fn, kind |-> kind, name |-> metadata.name,
     ns |-> metadata.namespace, result |-> res]

\* the name an object is known under by its callers
Known(kind, metadata) == <<kind, metadata.namespace, metadata.name>>

\* an operation on one key happened: the objects made under other keys
\* have seen another key change
Touch(made, known) ==
    {IF e.known = known THEN e ELSE [e EXCEPT !.others = TRUE] : e \in made}

\* create_item(value)
MemCreate(kind, value) ==
    LET k8_obj == MemK8Obj(value.api_version, value.kind,
                           NamedObjectMeta(value.metadata.name,
                                           value.metadata.namespace),
                           value.spec)
        item_key == ItemKey_new(kind, value.metadata)
        known == Known(kind, value.metadata)
    IN /\ mStore' = StoreInsert(mStore, item_key, to_value(k8_obj))
       /\ mLast' = Some(MemCall("create_item", kind, value.metadata, MemOk(k8_obj)))
       /\ mMade' = {e \in Touch(mMade, known) : e.known # known}
                     \cup {[known |-> known, obj |-> k8_obj, others |-> FALSE]}
       /\ UNCHANGED besideInMemory

\* retrieve_item(metadata)
MemRetrieve(kind, metadata) ==
    LET item_key == ItemKey_new(kind, metadata)
        found == StoreGet(mStore, item_key)
        value == from_value(TheOne(found))
        res == IF found = None
               THEN MemNotFound
               ELSE MemOk(MemK8Obj(value.api_version, value.kind,
                                   NamedObjectMeta(value.metadata.name,
                                                   value.metadata.namespace),
                                   value.spec))
    IN /\ mLast' = Some(MemCall("retrieve_item", kind, metadata, res))
       /\ UNCHANGED <<mStore, mMade>>
       /\ UNCHANGED besideInMemory

\* delete_item(metadata)
MemDelete(kind, metadata) ==
    LET item_key == ItemKey_new(kind, metadata)
        found == StoreGet(mStore, item_key)
        value == from_value(TheOne(found))
        known == Known(kind, metadata)
        res == IF found = None
               THEN MemNotFound
               ELSE MemOk([api_version |-> value.api_version,
                           kind |-> value.kind, status |-> "Success"])
    IN /\ mStore' = StoreRemove(mStore, item_key)
       /\ mLast' = Some(MemCall("delete_item", kind, metadata, res))
       /\ mMade' = IF found = None
                   THEN mMade
                   ELSE {e \in Touch(mMade, known) : e.known # known}
       /\ UNCHANGED besideInMemory

\* update_status(update_k8_status)
MemUpdateStatus(kind, update) ==
    LET item_key == ItemKey_new(kind, update.metadata)
        found == StoreGet(mStore, item_key)
        k8_obj == [from_value(TheOne(found)) EXCEPT !.status = update.status]
    IN /\ mStore' = IF found = None
                    THEN mStore
                    ELSE StoreInsert(mStore, item_key, to_value(k8_obj))
       /\ mLast' = Some(MemCall("update_status", kind, update.metadata,
                                IF found = None THEN MemNotFound ELSE MemOk(k8_obj)))
       /\ UNCHANGED mMade
       /\ UNCHANGED besideInMemory

\* a client just built, and an in-memory client with an empty store
MInit ==
    /\ NewClient
    /\ WIdle
    /\ NIdle
    /\ AIdle
    /\ UIdle
    /\ MIdle
    /\ CIdle
    /\ LIdle
    /\ OIdle
    /\ KIdle
    /\ GIdle

MNext ==
    \/ \E kind \in MemKinds : \E value \in MemInputs(kind) : MemCreate(kind, value)
    \/ \E kind \in MemKinds : \E metadata \in MemMetas : MemRetrieve(kind, metadata)
    \/ \E kind \in MemKinds : \E metadata \in MemMetas : MemDelete(kind, metadata)
    \/ \E kind \in MemKinds : \E update \in MemUpdates(kind) : MemUpdateStatus(kind, update)

SpecInMemory == MInit /\ [][MNext]_vars

\* ------------------------------------------------------------------
\* Claims about the in-memory client
\* ------------------------------------------------------------------

\* the objects made under the key of the last call
MadeUnderLast ==
    {e \in mMade : e.known = <<TheOne(mLast).kind, TheOne(mLast).ns, TheOne(mLast).name>>}

TlsHyperConnectors == {"openssl", "native", "rustls"}

\* "hyper" is the backend of hyper/config.rs
Backends == TlsHyperConnectors \cup {"hyper"}

\* the URIs a connection is requested for: absolute ones, with a scheme and
\* a host, and the relative one, with neither
ConnectUris ==
    {u \in [scheme: {None, Some("https"), Some("http"), Some("ws")},
            host: {None, Some("k8.local")},
            port: {None, Some(6443)}] :
        /\ u.scheme # None <=> u.host # None
        /\ u.host = None => u.port = None}

ConnectErr(msg) == [ok |-> FALSE, error |-> msg]

\* the stream handed back to hyper: over TLS or in clear text
ConnectOk(tls) == [ok |-> TRUE, tls |-> tls]

\* TlsHyperConnector::call up to its first await: the error it returns
\* there, if any
TlsHyperConnector_call(uri) ==
    IF uri.host = None THEN Some(ConnectErr("no host"))
    ELSE IF uri.scheme = Some("http") THEN Some(ConnectErr("http not supported"))
    ELSE IF uri.scheme = Some("https") THEN None
    ELSE Some(ConnectErr("scheme"))

\* the connector of hyper/config.rs: an HttpsConnector over an
\* HttpConnector with enforce_http(false). Nothing in build looks at the
\* scheme; the HttpConnector dials every URI that has a host and only
\* https URIs get a TLS session on top.
HttpsConnector_call(uri) ==
    IF uri.host = None THEN Some(ConnectErr("no host")) ELSE None

\* uri.port_u16().unwrap_or(443); the HttpConnector dials 80 for http
PortOf(backend, uri) ==
    IF uri.port # None THEN TheOne(uri.port)
    ELSE IF backend = "hyper" /\ uri.scheme # Some("https") THEN 80
    ELSE 443

\* the session is wrapped in TLS
WantsTls(backend, uri) ==
    backend \in TlsHyperConnectors \/ uri.scheme = Some("https")

\* call(uri): the request is looked at
ConnectorCall(backend, uri) ==
    LET first == IF backend \in TlsHyperConnectors
                 THEN TlsHyperConnector_call(uri)
                 ELSE HttpsConnector_call(uri)
    IN /\ cPc = "idle"
       /\ cCall' = Some([backend |-> backend, uri |-> uri])
       /\ cPc' = IF first = None THEN "resolve" ELSE "done"
       /\ cResult' = first
       /\ UNCHANGED cSockets
       /\ UNCHANGED besideConnector

\* to_socket_addrs: an address, or none
ConnectorResolve(found) ==
    /\ cPc = "resolve"
    /\ cPc' = IF found THEN "dial" ELSE "done"
    /\ cResult' = IF found THEN None ELSE Some(ConnectErr("host resolution"))
    /\ UNCHANGED <<cCall, cSockets>>
    /\ UNCHANGED besideConnector

\* TcpStream::connect: a socket, or an error
ConnectorDial(connected) ==
    LET call == TheOne(cCall)
        tls == WantsTls(call.backend, call.uri)
    IN /\ cPc = "dial"
       /\ cSockets' = IF connected
                      THEN Append(cSockets, [port |-> PortOf(call.backend, call.uri),
                                             tls |-> FALSE])
                      ELSE cSockets
       /\ cPc' = IF connected /\ tls THEN "handshake" ELSE "done"
       /\ cResult' = IF ~connected THEN Some(ConnectErr("connect"))
                     ELSE IF tls THEN None
                     ELSE Some(ConnectOk(FALSE))
       /\ UNCHANGED cCall
       /\ UNCHANGED besideConnector

\* connector.connect(host, tcp_stream): the TLS handshake
ConnectorHandshake(accepted) ==
    /\ cPc = "handshake"
    /\ cPc' = "done"
    /\ cSockets' = IF accepted
                   THEN [cSockets EXCEPT ![Len(cSockets)].tls = TRUE]
                   ELSE cSockets
    /\ cResult' = IF accepted THEN Some(ConnectOk(TRUE))
                  ELSE Some(ConnectErr("tls handshake"))
    /\ UNCHANGED cCall
    /\ UNCHANGED besideConnector

\* a client just built; no connection requested yet
CInit ==
    /\ NewClient
    /\ WIdle
    /\ NIdle
    /\ AIdle
    /\ UIdle
    /\ MIdle
    /\ CIdle
    /\ LIdle
    /\ OIdle
    /\ KIdle
    /\ GIdle

CNext ==
    \/ \E backend \in Backends : \E uri \in ConnectUris : ConnectorCall(backend, uri)
    \/ \E found \in BOOLEAN : ConnectorResolve(found)
    \/ \E connected \in BOOLEAN : ConnectorDial(connected)
    \/ \E accepted \in BOOLEAN : ConnectorHandshake(accepted)

SpecConnector == CInit /\ [][CNext]_vars

\* ------------------------------------------------------------------
\* Claims about the connectors
\* ------------------------------------------------------------------

\* the request is not one for an https URL with a host
NotHttps(call) == call.uri.scheme # Some("https") \/ call.uri.host = None

\* the request was rejected before any socket was opened
RejectedUnopened ==
    /\ cPc = "done"
    /\ cSockets = <<>>
    /\ cResult # None
    /\ ~TheOne(cResult).ok

\* no socket has been opened for the request and it has not succeeded
Unopened == cSockets = <<>> /\ (cResult # None => ~TheOne(cResult).ok)

\* no stream handed back is in clear text
NoClearText == cResult # None /\ TheOne(cResult).ok => TheOne(cResult).tls

\* C17: the connector of every TLS backend accepts only https URLs: a
\* request for an http URL, for any other scheme or for a URL without a
\* host is rejected with an error before any socket is opened, and no
\* stream is ever handed back in clear text.
C17_HttpsOnly ==
    /\ (cCall # None /\ NotHttps(TheOne(cCall))) => Unopened
    /\ NoClearText

\* the same, for the backends with a TlsHyperConnector of their own
HttpsOnlyTlsHyperConnector ==
    (cCall # None /\ TheOne(cCall).backend \in TlsHyperConnectors) =>
        /\ NotHttps(TheOne(cCall)) => RejectedUnopened
        /\ NoClearText

\* ------------------------------------------------------------------
\* ListStream (k8-client/src/client/list_stream.rs): a list read page
\* by page
\* ------------------------------------------------------------------

\* the largest page size tried; 0 asks the server for everything at once
MaxLimit == 2

\* the largest number of items the server holds
MaxTotal == 5

\* the number of polls followed
MaxPolls == 6

\* Option<ListArg>
ListArgs ==
    {None, Some([field_selector |-> Some("f"), label_selector |-> None])}

\* list_option with the continuation left out
list_option_NoContinue(limit, arg, continu) ==
    [limit |-> Some(limit),
     continu |-> None,
     field_selector |-> IF arg = None THEN None ELSE TheOne(arg).field_selector,
     label_selector |-> IF arg = None THEN None ELSE TheOne(arg).label_selector]

\* ListStream::list_option
list_option(limit, arg, continu) ==
    [limit |-> Some(limit),
     continu |-> continu,
     field_selector |-> IF arg = None THEN None ELSE TheOne(arg).field_selector,
     label_selector |-> IF arg = None THEN None ELSE TheOne(arg).label_selector]

\* where a list request starts reading: the continue token is the number
\* of items already handed out
OffsetOf(options) ==
    IF options.continu = None THEN 0 ELSE TheOne(options.continu)

\* the number of items the server puts into the page
PageSize(total, options) ==
    LET rest == total - OffsetOf(options)
        limit == TheOne(options.limit)
    IN IF limit = 0 \/ rest <= limit THEN rest ELSE limit

\* the K8List the server answers a list request with: the next items, and
\* a continue token exactly when items remain
Serve(total, options) ==
    LET from == OffsetOf(options)
        n == PageSize(total, options)
    IN [items |-> [i \in 1..n |-> from + i],
        metadata |-> [continu |-> IF from + n < total THEN Some(from + n) ELSE None]]

ListOk(list) == [ok |-> TRUE, list |-> list]

ListErr == [ok |-> FALSE]

\* a future made by set_inner: its options, and whether it has been
\* polled, which is when its request goes out
Inner(options, polled) == [options |-> options, sent |-> polled]

\* done after an answer, with the end of the list overlooked
done_after_ErrOnly(val) == ~val.ok

\* done after the future has answered
done_after(val) == IF val.ok THEN val.list.metadata.continu = None ELSE TRUE

\* the item returned, with a failed request turned into an empty page
item_of_ErrAsEmptyPage(val) ==
    IF val.ok THEN Some(val.list)
    ELSE Some([items |-> <<>>, metadata |-> [continu |-> None]])

\* the item poll_next returns after the future has answered
item_of(val) == IF val.ok THEN Some(val.list) ELSE None

\* the future poll_next polls: inner, set first if there is none
InnerPolled ==
    IF lInner = None
    THEN Inner(list_option(lLimit, lArg, None), FALSE)
    ELSE TheOne(lInner)

\* the requests sent once the future has been polled
ReqsPolled ==
    IF InnerPolled.sent THEN lReqs ELSE Append(lReqs, InnerPolled.options)

\* ListStream::new
NewListStream ==
    /\ lLimit \in 0..MaxLimit
    /\ lArg \in ListArgs
    /\ lTotal \in 0..MaxTotal
    /\ lDone = FALSE
    /\ lInner = None
    /\ lReqs = <<>>
    /\ lOut = <<>>
    /\ lLast = "none"
    /\ lFut = "none"
    /\ lPolls = 0

\* a client just built and a list stream on it, not polled yet
LInit ==
    /\ NewClient
    /\ WIdle
    /\ NIdle
    /\ AIdle
    /\ UIdle
    /\ MIdle
    /\ CIdle
    /\ NewListStream
    /\ OIdle
    /\ KIdle
    /\ GIdle

\* poll_next on a stream that is done
ListPollDone ==
    /\ lPolls < MaxPolls
    /\ lDone
    /\ lLast' = "end"
    /\ lPolls' = lPolls + 1
    /\ UNCHANGED <<lLimit, lArg, lTotal, lDone, lInner, lReqs, lOut, lFut>>
    /\ UNCHANGED besideList

\* poll_next: the future is pending
ListPollPending ==
    /\ lPolls < MaxPolls
    /\ ~lDone
    /\ lInner' = Some(Inner(InnerPolled.options, TRUE))
    /\ lReqs' = ReqsPolled
    /\ lLast' = "pending"
    /\ lFut' = "pending"
    /\ lPolls' = lPolls + 1
    /\ UNCHANGED <<lLimit, lArg, lTotal, lDone, lOut>>
    /\ UNCHANGED besideList

\* poll_next: the future has answered with val
ListPollReady(val) ==
    LET item == item_of(val)
        more == val.ok /\ val.list.metadata.continu # None
    IN /\ lPolls < MaxPolls
       /\ ~lDone
       /\ lReqs' = ReqsPolled
       /\ lInner' = IF more
                    THEN Some(Inner(list_option(lLimit, lArg,
                                                val.list.metadata.continu), FALSE))
                    ELSE Some(Inner(InnerPolled.options, TRUE))
       /\ lDone' = done_after(val)
       /\ lOut' = IF item = None THEN lOut ELSE Append(lOut, TheOne(item))
       /\ lLast' = IF item = None THEN "end" ELSE "page"
       /\ lFut' = IF val.ok THEN "ok" ELSE "err"
       /\ lPolls' = lPolls + 1
       /\ UNCHANGED <<lLimit, lArg, lTotal>>
       /\ UNCHANGED besideList

\* poll_next: the list request succeeded
ListPollOk == ListPollReady(ListOk(Serve(lTotal, InnerPolled.options)))

\* poll_next: the list request failed
ListPollErr == ListPollReady(ListErr)

LNext ==
    \/ ListPollDone
    \/ ListPollPending
    \/ ListPollOk
    \/ ListPollErr

SpecList == LInit /\ [][LNext]_vars

\* ------------------------------------------------------------------
\* Claims about the list stream
\* ------------------------------------------------------------------

\* the items of the pages pages[1..n], in order
RECURSIVE ItemsOf(_, _)
ItemsOf(pages, n) ==
    IF n = 0 THEN <<>> ELSE ItemsOf(pages, n - 1) \o pages[n].items

\* the stream has emitted the page without a continue token
LastPageOut ==
    lOut # <<>> /\ lOut[Len(lOut)].metadata.continu = None

\* C18: the first list request carries the configured limit and no
\* continue token; every later request carries the limit and exactly the
\* continue token of the page emitted just before it; pages are emitted in
\* the order the server returned them, and the page without a continue
\* token is the last one emitted (5 items with limit 2 give pages of 2, 2
\* and 1).
C18_PagesChained ==
    /\ \A i \in 1..Len(lReqs) :
          /\ lReqs[i].limit = Some(lLimit)
          /\ i = 1 => lReqs[i].continu = None
          /\ i > 1 => /\ i - 1 <= Len(lOut)
                      /\ lReqs[i].continu # None
                      /\ lReqs[i].continu = lOut[i - 1].metadata.continu
    /\ Len(lOut) <= Len(lReqs)
    /\ \A i \in 1..Len(lOut) :
          /\ lOut[i] = Serve(lTotal, lReqs[i])
          /\ i < Len(lOut) => lOut[i].metadata.continu # None
          /\ (i < Len(lOut) /\ lLimit > 0) => Len(lOut[i].items) = lLimit
    /\ LastPageOut => ItemsOf(lOut, Len(lOut)) = [i \in 1..lTotal |-> i]

\* five items read two at a time: pages of 2, 2 and 1, then the end
C18_Witness ==
    /\ lTotal = 5
    /\ lLimit = 2
    /\ lLast = "end"
    /\ lFut = "ok"
    /\ Len(lOut) = 3
    /\ Len(lReqs) = 3
    /\ Len(lOut[1].items) = 2
    /\ Len(lOut[2].items) = 2
    /\ Len(lOut[3].items) = 1
    /\ lReqs[3].continu = lOut[2].metadata.continu

\* the stream has ended: the last page is out, or a list request failed
ListEnded == LastPageOut \/ lFut = "err"

\* C19: the stream cannot be restarted: once it has ended, after the page
\* without a continue token or after a failed list request, every later
\* poll returns end-of-stream and sends no list request.
C19_EndedStaysEnded ==
    [][(ListEnded /\ lPolls' # lPolls) =>
          /\ lLast' = "end"
          /\ lReqs' = lReqs
          /\ lOut' = lOut
          /\ lDone']_vars

\* polled again after the last page had been emitted
C19_Witness ==
    /\ LastPageOut
    /\ lDone
    /\ lFut = "ok"
    /\ lLast = "end"

\* C20: when a list request fails, no page is emitted for it, the stream
\* ends at that poll and the pages emitted before are as they were; the
\* error itself is not handed to the consumer.
C20_FailureEndsQuietly ==
    [][(lPolls' # lPolls /\ ~lDone /\ lFut' = "err") =>
          /\ lOut' = lOut
          /\ lLast' = "end"
          /\ lDone'
          /\ \A i \in 1..Len(lOut') : lOut'[i] = Serve(lTotal, lReqs'[i])]_vars

\* a request failed after a page had been emitted
C20_Witness ==
    /\ lFut = "err"
    /\ lLast = "end"
    /\ lOut # <<>>
    /\ Len(lReqs) = Len(lOut) + 1

\* ------------------------------------------------------------------
\* The initial phase of a stream: K8Client::stream_of_chunks under
\* watch_stream_since and retrieve_log, and the list of watch_stream_now
\* ------------------------------------------------------------------

\* most documents a stream delivers once it is open
MaxDocs == 2

\* the operations that hand a stream to the caller
StreamFns == {"watch_stream_since", "retrieve_log", "watch_stream_now"}

\* an item of the stream: an error, or something read
ErrItem == [ok |-> FALSE]

OkItem == [ok |-> TRUE]

\* stream_of_chunks on a failure of its initial phase: the error is logged
\* and empty() takes the place of the stream
initial_failure(items) == items

\* the operation is called: the stream is built and handed back; nothing is
\* sent before it is polled
OpenBuild(fn) ==
    /\ oPc = "idle"
    /\ oFn' = fn
    /\ oPc' = "built"
    /\ UNCHANGED <<oFail, oItems>>
    /\ UNCHANGED besideOpen

\* the first poll of a stream of stream_of_chunks: the request is finished
\* and sent; connected says whether http_client.request answered
OpenChunks(connected) ==
    LET failure == IF ~finish_request_ok(token) THEN "request"
                   ELSE IF ~connected THEN "connect"
                   ELSE "none"
    IN /\ oPc = "built"
       /\ oFn \in {"watch_stream_since", "retrieve_log"}
       /\ oFail' = failure
       /\ oPc' = IF failure = "none" THEN "streaming" ELSE "ended"
       /\ oItems' = IF failure = "none" THEN oItems ELSE initial_failure(oItems)
       /\ UNCHANGED oFn
       /\ UNCHANGED besideOpen

\* the first poll of the stream of watch_stream_now: the list is asked for
\* with retrieve_items_with_option; listed says whether it came back Ok
OpenList(listed) ==
    LET failure == IF ~finish_request_ok(token) THEN "request"
                   ELSE IF ~listed THEN "connect"
                   ELSE "none"
    IN /\ oPc = "built"
       /\ oFn = "watch_stream_now"
       /\ oFail' = failure
       /\ oPc' = IF failure = "none" THEN "streaming" ELSE "ended"
       /\ oItems' = IF failure = "none" THEN Append(oItems, OkItem)
                    ELSE Append(oItems, ErrItem)
       /\ UNCHANGED oFn
       /\ UNCHANGED besideOpen

\* an open stream yields an item: a document that decodes or one that does
\* not
OpenItem(item) ==
    /\ oPc = "streaming"
    /\ Len(oItems) < MaxDocs
    /\ oItems' = Append(oItems, item)
    /\ UNCHANGED <<oFn, oPc, oFail>>
    /\ UNCHANGED besideOpen

\* an open stream ends
OpenEnd ==
    /\ oPc = "streaming"
    /\ oPc' = "ended"
    /\ UNCHANGED <<oFn, oFail, oItems>>
    /\ UNCHANGED besideOpen

\* a client just built; no stream asked for yet
OInit ==
    /\ NewClient
    /\ WIdle
    /\ NIdle
    /\ AIdle
    /\ UIdle
    /\ MIdle
    /\ CIdle
    /\ LIdle
    /\ OIdle
    /\ KIdle
    /\ GIdle

ONext ==
    \/ \E fn \in StreamFns : OpenBuild(fn)
    \/ \E connected \in BOOLEAN : OpenChunks(connected)
    \/ \E listed \in BOOLEAN : OpenList(listed)
    \/ \E item \in {ErrItem, OkItem} : OpenItem(item)
    \/ OpenEnd

SpecOpen == OInit /\ [][ONext]_vars

\* ------------------------------------------------------------------
\* Claims about the initial phase of a stream
\* ------------------------------------------------------------------

\* C22: a failure in the initial phase of a stream (building the request,
\* connecting or sending for a watch or log stream, or the first list of
\* watch_stream_now) reaches the consumer as a stream of exactly one error
\* item that then ends: never as an empty stream, and never as an error
\* raised when the stream is built.
C22_InitialFailureIsOneErrorItem ==
    /\ oFail # "none" => (oPc = "ended" /\ oItems = <<ErrItem>>)
    /\ oPc = "built" => (oFail = "none" /\ oItems = <<>>)

\* the same, for watch_stream_now alone
InitialListFailureIsOneErrorItem ==
    oFn = "watch_stream_now" => C22_InitialFailureIsOneErrorItem

\* C23: every operation whose URL fails to parse returns an error value to
\* its caller, the operations on one item (item_uri) and the operations on
\* a collection (items_uri) alike; none aborts the task.
C23_UnparsableUrlIsError ==
    uOut # None => TheOne(uOut).status \in {"ok", "err"}

\* the same, for the operations on one item
UnparsableItemUrlIsError ==
    (uOut # None /\ TheOne(uCall).fn = "item_uri") =>
        TheOne(uOut).status \in {"ok", "err"}

\* ------------------------------------------------------------------
\* Client configuration: ClientConfigBuilder (k8-client/src/cert.rs) over
\* the credential builder of the TLS backend (HyperClientBuilder of
\* config_rustls.rs, config_native.rs and config_openssl.rs)
\* ------------------------------------------------------------------

\* most calls made on a credential builder used directly
MaxOps == 3

TlsBackends == {"rustls", "native", "openssl"}

\* UserDetail of the current user: the fields that carry an identity
UserDetails ==
    [exec: {None, Some("aws")},
     client_certificate_data: {None, Some("b64"), Some("bad")},
     client_key_data: {None, Some("b64")},
     client_certificate: {None, Some("crt.pem")},
     client_key: {None, Some("key.pem")},
     token: {None, Some("user-token")},
     auth_provider: {None, Some("gcp")}]

\* ClusterDetail of the current cluster: the fields that carry trust
ClusterDetails ==
    [certificate_authority_data: {None, Some("b64"), Some("bad")},
     certificate_authority: {None, Some("ca.pem")}]

\* KubeConfig, reduced to its current user and current cluster
KubeConfigs == [user: UserDetails, cluster: ClusterDetails]

\* base64::decode succeeds
decodes(data) == data # "bad"

\* ConfigBuilder::new
NewBuilder(backend) ==
    IF backend = "rustls"
    THEN [kind |-> backend, stage |-> "WantsVerifier"]
    ELSE [kind |-> backend, ca_cert |-> FALSE, client_identity |-> FALSE]

BuilderOk(b) == [ok |-> TRUE, builder |-> b]

BuilderErr(msg) == [ok |-> FALSE, error |-> msg]

\* load_ca_certificate and load_ca_cert_with_data
load_ca_certificate(b) ==
    IF b.kind = "rustls"
    THEN IF b.stage = "WantsVerifier"
         THEN BuilderOk([b EXCEPT !.stage = "WantsTransparencyPolicyOrClientCert"])
         ELSE BuilderErr("already loaded ca cert")
    ELSE BuilderOk([b EXCEPT !.ca_cert = TRUE])

\* load_client_certificate and load_client_certificate_with_data
load_client_certificate(b) ==
    IF b.kind = "rustls"
    THEN CASE b.stage = "WantsVerifier" -> BuilderErr("missing verifier")
           [] b.stage = "WantsTransparencyPolicyOrClientCert" ->
                  BuilderOk([b EXCEPT !.stage = "ConnectorBuilder"])
           [] OTHER -> BuilderErr("already loaded client cert")
    ELSE BuilderOk([b EXCEPT !.client_identity = TRUE])

\* a build that makes a connector without a client certificate
build_WithoutClientCert(b) ==
    IF b.kind = "rustls"
    THEN CASE b.stage = "WantsVerifier" -> BuilderErr("missing verifier")
           [] OTHER -> BuilderOk(b)
    ELSE IF b.kind = "native" /\ ~b.ca_cert THEN BuilderErr("no ca cert")
    ELSE BuilderOk(b)

\* ConfigBuilder::build
build(b) ==
    IF b.kind = "rustls"
    THEN CASE b.stage = "WantsVerifier" -> BuilderErr("missing verifier")
           [] b.stage = "WantsTransparencyPolicyOrClientCert" ->
                  BuilderErr("missing client cert")
           [] OTHER -> BuilderOk(b)
    ELSE IF b.kind = "native" /\ ~b.ca_cert THEN BuilderErr("no ca cert")
    ELSE BuilderOk(b)

\* the builder holds a CA
HasCa(b) == IF b.kind = "rustls" THEN b.stage # "WantsVerifier" ELSE b.ca_cert

\* the builder holds a client certificate
HasIdentity(b) ==
    IF b.kind = "rustls" THEN b.stage = "ConnectorBuilder" ELSE b.client_identity

\* what a step of the configuration returned
Step(step, status, msg) == [step |-> step, status |-> status, msg |-> msg]

\* what configure_out_of_cluster gives: a builder and a token, an error, or
\* a panic
ConfigOk(b, tok) ==
    [status |-> "ok", msg |-> "", builder |-> Some(b), external_token |-> tok]

ConfigErr(msg) ==
    [status |-> "err", msg |-> msg, builder |-> None, external_token |-> None]

ConfigPanic ==
    [status |-> "panic", msg |-> "unwrap", builder |-> None, external_token |-> None]

\* the second half of configure_out_of_cluster: the client identity
load_client_certs(builder, user) ==
    IF user.exec # None
    THEN ConfigOk(builder, Some("exec-token"))
    ELSE IF user.client_certificate_data # None
    THEN IF ~decodes(TheOne(user.client_certificate_data))
         THEN ConfigErr("base64 decoding err")
         ELSE IF user.client_key_data = None
         THEN ConfigErr("current user must have client key data")
         ELSE LET r == load_client_certificate(builder)
              IN IF r.ok THEN ConfigOk(r.builder, None) ELSE ConfigErr(r.error)
    ELSE IF user.client_certificate # None
    THEN IF user.client_key = None
         THEN ConfigErr("current user must have client key")
         ELSE LET r == load_client_certificate(builder)
              IN IF r.ok THEN ConfigOk(r.builder, None) ELSE ConfigErr(r.error)
    ELSE IF user.token # None
    THEN ConfigOk(builder, user.token)
    ELSE ConfigOk(builder, None)

\* configure_out_of_cluster: the CA of the cluster, then the identity
configure_out_of_cluster(builder, kube_config) ==
    LET cluster == kube_config.cluster
    IN IF cluster.certificate_authority_data # None
       THEN IF ~decodes(TheOne(cluster.certificate_authority_data))
            THEN ConfigPanic
            ELSE LET r == load_ca_certificate(builder)
                 IN IF r.ok THEN load_client_certs(r.builder, kube_config.user)
                    ELSE ConfigErr(r.error)
       ELSE IF cluster.certificate_authority = None
       THEN ConfigErr("current cluster must have CA crt path")
       ELSE LET r == load_ca_certificate(builder)
            IN IF r.ok THEN load_client_certs(r.builder, kube_config.user)
               ELSE ConfigErr(r.error)

\* ClientConfigBuilder::token for a kubeconfig: the external token, else
\* the token of the gcp auth-provider
config_token(external_token, kube_config) ==
    IF external_token # None THEN external_token
    ELSE IF kube_config.user.auth_provider = Some("gcp") THEN Some("gcp-token")
    ELSE None

\* ClientConfigBuilder::new(config)
KNew(backend, kube_config) ==
    LET r == configure_out_of_cluster(NewBuilder(backend), kube_config)
    IN /\ kPc = "idle"
       /\ kBackend' = backend
       /\ kConfig' = Some(kube_config)
       /\ kPc' = IF r.status = "ok" THEN "configured" ELSE "failed"
       /\ kBuilder' = r.builder
       /\ kExternal' = r.external_token
       /\ kResult' = Some(Step("new", r.status, r.msg))
       /\ UNCHANGED <<kToken, kOps>>
       /\ UNCHANGED besideConfig

\* helper.token()
KToken ==
    /\ kPc = "configured"
    /\ kPc' = "tokened"
    /\ kToken' = config_token(kExternal, TheOne(kConfig))
    /\ kResult' = Some(Step("token", "ok", ""))
    /\ UNCHANGED <<kBackend, kConfig, kBuilder, kExternal, kOps>>
    /\ UNCHANGED besideConfig

\* helper.build()
KBuild ==
    LET r == build(TheOne(kBuilder))
    IN /\ kPc = "tokened"
       /\ kPc' = IF r.ok THEN "built" ELSE "failed"
       /\ kResult' = Some(Step("build", IF r.ok THEN "ok" ELSE "err",
                               IF r.ok THEN "" ELSE r.error))
       /\ UNCHANGED <<kBackend, kConfig, kBuilder, kExternal, kToken, kOps>>
       /\ UNCHANGED besideConfig

\* a call on a credential builder used directly: the builder is moved into
\* the call, and is there afterwards only if the call returned it
BuilderCall(name, r, last) ==
    /\ kPc = "free"
    /\ Len(kOps) < MaxOps
    /\ kOps' = Append(kOps, [op |-> name, ok |-> r.ok])
    /\ kBuilder' = IF r.ok /\ ~last THEN Some(r.builder) ELSE None
    /\ kPc' = IF r.ok /\ ~last THEN "free" ELSE "gone"
    /\ kResult' = Some(Step(name, IF r.ok THEN "ok" ELSE "err",
                            IF r.ok THEN "" ELSE r.error))
    /\ UNCHANGED <<kBackend, kConfig, kExternal, kToken>>
    /\ UNCHANGED besideConfig

\* HyperClientBuilder::new()
BNew(backend) ==
    /\ kPc = "idle"
    /\ kPc' = "free"
    /\ kBackend' = backend
    /\ kBuilder' = Some(NewBuilder(backend))
    /\ UNCHANGED <<kConfig, kExternal, kToken, kResult, kOps>>
    /\ UNCHANGED besideConfig

BLoadCa == BuilderCall("load_ca", load_ca_certificate(TheOne(kBuilder)), FALSE)

BLoadClientCert ==
    BuilderCall("load_client", load_client_certificate(TheOne(kBuilder)), FALSE)

BBuild == BuilderCall("build", build(TheOne(kBuilder)), TRUE)

\* a client just built elsewhere; no configuration read here yet
KInit ==
    /\ NewClient
    /\ WIdle
    /\ NIdle
    /\ AIdle
    /\ UIdle
    /\ MIdle
    /\ CIdle
    /\ LIdle
    /\ OIdle
    /\ KIdle
    /\ GIdle

KNext ==
    \/ \E backend \in TlsBackends : \E kube_config \in KubeConfigs : KNew(backend, kube_config)
    \/ KToken
    \/ KBuild
    \/ \E backend \in TlsBackends : BNew(backend)
    \/ BLoadCa
    \/ BLoadClientCert
    \/ BBuild

SpecConfig == KInit /\ [][KNext]_vars

\* the first credential of the user in the order exec, client certificate
\* data, client certificate path, token, gcp auth-provider
FirstIdentity(user) ==
    IF user.exec # None THEN "exec"
    ELSE IF user.client_certificate_data # None THEN "client_certificate_data"
    ELSE IF user.client_certificate # None THEN "client_certificate"
    ELSE IF user.token # None THEN "token"
    ELSE IF user.auth_provider # None THEN "auth_provider"
    ELSE "none"

\* the cluster names a CA that loads
CaLoads(cluster) ==
    IF cluster.certificate_authority_data # None
    THEN decodes(TheOne(cluster.certificate_authority_data))
    ELSE cluster.certificate_authority # None

\* C24: out of cluster, the first credential present in the order exec,
\* client certificate data, client certificate path, token, gcp
\* auth-provider alone gives the identity and the token of the client, and
\* a user with none of them makes the construction fail with "no client
\* cert data, path, or user token were found"
C24_FirstIdentityDecides ==
    kConfig # None =>
        LET user == TheOne(kConfig).user
            first == FirstIdentity(user)
        IN /\ kPc \in {"tokened", "built"} =>
                /\ first = "exec" =>
                       kToken = Some("exec-token") /\ ~HasIdentity(TheOne(kBuilder))
                /\ first \in {"client_certificate_data", "client_certificate"} =>
                       kToken = None /\ HasIdentity(TheOne(kBuilder))
                /\ first = "token" =>
                       kToken = user.token /\ ~HasIdentity(TheOne(kBuilder))
                /\ first = "auth_provider" =>
                       kToken = Some("gcp-token") /\ ~HasIdentity(TheOne(kBuilder))
           /\ first = "none" /\ CaLoads(TheOne(kConfig).cluster) =>
                /\ kPc = "failed"
                /\ TheOne(kResult).msg
                       = "no client cert data, path, or user token were found"

\* the part of C24 that the code keeps: a credential that configure took
\* from exec or from the token of the user is the token of the client
ExternalTokenDecides ==
    kPc \in {"tokened", "built"} /\ kExternal # None => kToken = kExternal

\* the user carries no client certificate, so that loading the identity
\* cannot fail
NoClientCert(user) ==
    FirstIdentity(user) \in {"exec", "token", "auth_provider", "none"}

\* C25: the CA of the cluster is its inline data, else its path, else no CA
\* is loaded and a builder is produced all the same; CA data that is not
\* base64 gives an error value
C25_TrustFromDataThenPath ==
    kConfig # None =>
        LET cluster == TheOne(kConfig).cluster
            r == TheOne(kResult)
        IN /\ r.status # "panic"
           /\ ~CaLoads(cluster) /\ cluster.certificate_authority_data # None =>
                  kPc = "failed" /\ r.step = "new" /\ r.status = "err"
           /\ CaLoads(cluster) /\ kBuilder # None => HasCa(TheOne(kBuilder))
           /\ /\ cluster.certificate_authority_data = None
              /\ cluster.certificate_authority = None
              /\ NoClientCert(TheOne(kConfig).user)
              => /\ kBuilder # None
                 /\ ~HasCa(TheOne(kBuilder))
                 /\ ~(kPc = "failed" /\ r.step = "new")

\* the part of C25 that the code keeps: a builder that configure returns
\* holds a CA, the inline data before the path
TrustLoadedWhenConfigured ==
    kConfig # None /\ kBuilder # None =>
        CaLoads(TheOne(kConfig).cluster) /\ HasCa(TheOne(kBuilder))

\* the stage of a rustls builder before its i-th call: each accepted load
\* moves it one stage on
RECURSIVE StageBefore(_, _)
StageBefore(ops, i) ==
    IF i = 1 THEN 1
    ELSE StageBefore(ops, i - 1)
             + (IF ops[i - 1].ok /\ ops[i - 1].op # "build" THEN 1 ELSE 0)

\* the stage in which the rustls builder accepts a call
StageOf(call) ==
    CASE call = "load_ca" -> 1
      [] call = "load_client" -> 2
      [] call = "build" -> 3

\* C28: the rustls builder accepts a CA only in its first stage, a client
\* certificate only in its second and build only in its third, and returns
\* an error for every other order; a configuration with a CA and a bearer
\* token but no client certificate fails at build
C28_RustlsThreeStages ==
    kBackend = "rustls" =>
        /\ \A i \in 1..Len(kOps) :
               kOps[i].ok <=> StageBefore(kOps, i) = StageOf(kOps[i].op)
        /\ /\ kConfig # None
           /\ kResult # None
           /\ TheOne(kResult).step = "build"
           /\ ~HasIdentity(TheOne(kBuilder))
           => /\ kPc = "failed"
              /\ TheOne(kResult).msg = "missing client cert"

\* a rustls client configured with a CA and the token of the user, without
\* a client certificate, has been refused at build
C28_Witness ==
    /\ kBackend = "rustls"
    /\ kConfig # None
    /\ CaLoads(TheOne(kConfig).cluster)
    /\ FirstIdentity(TheOne(kConfig).user) = "token"
    /\ kToken = Some("user-token")
    /\ kPc = "failed"
    /\ TheOne(kResult).step = "build"
    /\ TheOne(kResult).msg = "missing client cert"

\* a rustls builder used directly has been built after a CA and a client
\* certificate, each loaded in its stage
RustlsBuiltInOrder ==
    /\ kBackend = "rustls"
    /\ Len(kOps) = 3
    /\ \A i \in 1..3 : kOps[i].ok

\* C27: apply never aborts, whatever the kind, Deployment included: it ends
\* with Unchanged, Patched or an error, because make_same returns for every
\* pair of specs
C27_ApplyNeverAborts == aPc # "aborted"

\* the part of C27 that the code keeps: apply aborts for no kind but
\* Deployment
OnlyDeploymentAborts ==
    aPc = "aborted" => TheOne(aValue).kind = "Deployment"

\* ------------------------------------------------------------------
\* LogStream (k8-client/src/client/log_stream.rs): the log of a container
\* read through AsyncRead
\* ------------------------------------------------------------------

\* longest chunk of the inner stream
MaxChunk == 2

\* longest buffer the caller reads into
MaxBuf == 3

\* most chunks the inner stream yields
MaxReads == 2

LogBytes == {97, 98}

\* the chunks the inner stream can yield
LogChunks == UNION {[1..len -> LogBytes] : len \in 0..MaxChunk}

\* a buffer of the caller before the read
Zeros(len) == [i \in 1..len |-> 0]

\* &mut [u8] as a BufMut: the memory and how far it has been advanced
Cursor(mem, at) == [mem |-> mem, at |-> at]

\* BufMut::put_slice for &mut [u8]: panics (None) when the slice is longer
\* than what remains
put_slice(buf, src) ==
    IF Len(buf.mem) - buf.at < Len(src)
    THEN None
    ELSE Some(Cursor([i \in 1..Len(buf.mem) |->
                         IF i > buf.at /\ i <= buf.at + Len(src)
                         THEN src[i - buf.at] ELSE buf.mem[i]],
                     buf.at + Len(src)))

\* BufMut::put_u8
put_u8(buf, byte) == put_slice(buf, <<byte>>)

\* the Ready(Some(chunk)) arm of LogStream::poll_read, on a buffer of the
\* given length
poll_read(chunk, len) ==
    LET buf == Cursor(Zeros(len), 0)
        sliced == put_slice(buf, chunk)
        ended == IF sliced = None THEN None ELSE put_u8(TheOne(sliced), 10)
    IN IF ended # None
       THEN [status |-> "ok", count |-> Len(chunk) + 1, mem |-> TheOne(ended).mem]
       ELSE [status |-> "panic", count |-> 0,
             mem |-> IF sliced = None THEN buf.mem ELSE TheOne(sliced).mem]

\* the lines made of the chunks
RECURSIVE LogLines(_)
LogLines(chunks) ==
    IF chunks = <<>> THEN <<>>
    ELSE chunks[1] \o <<10>> \o LogLines(Tail(chunks))

\* K8Client::retrieve_log returns the LogStream
LogOpen ==
    /\ gPc = "idle"
    /\ gPc' = "open"
    /\ UNCHANGED <<gTaken, gBuf, gLast, gRead>>
    /\ UNCHANGED besideLog

\* poll_read when the inner stream yields a chunk
LogReadChunk(chunk, len) ==
    LET r == poll_read(chunk, len)
    IN /\ gPc = "open"
       /\ Len(gTaken) < MaxReads
       /\ gTaken' = Append(gTaken, chunk)
       /\ gBuf' = r.mem
       /\ gLast' = Some([status |-> r.status, count |-> r.count])
       /\ gRead' = gRead \o SubSeq(r.mem, 1, r.count)
       /\ gPc' = IF r.status = "panic" THEN "aborted" ELSE "open"
       /\ UNCHANGED besideLog

\* poll_read when the inner stream has ended
LogReadEnd(len) ==
    /\ gPc \in {"open", "ended"}
    /\ gPc' = "ended"
    /\ gBuf' = Zeros(len)
    /\ gLast' = Some([status |-> "ok", count |-> 0])
    /\ UNCHANGED <<gTaken, gRead>>
    /\ UNCHANGED besideLog

\* poll_read when the inner stream is pending
LogReadPending(len) ==
    /\ gPc = "open"
    /\ gBuf' = Zeros(len)
    /\ gLast' = Some([status |-> "pending", count |-> 0])
    /\ UNCHANGED <<gPc, gTaken, gRead>>
    /\ UNCHANGED besideLog

\* a client just built elsewhere; no log stream asked for yet
GInit ==
    /\ NewClient
    /\ WIdle
    /\ NIdle
    /\ AIdle
    /\ UIdle
    /\ MIdle
    /\ CIdle
    /\ LIdle
    /\ OIdle
    /\ KIdle
    /\ GIdle

GNext ==
    \/ LogOpen
    \/ \E chunk \in LogChunks : \E len \in 0..MaxBuf : LogReadChunk(chunk, len)
    \/ \E len \in 0..MaxBuf : LogReadEnd(len)
    \/ \E len \in 0..MaxBuf : LogReadPending(len)

SpecLog == GInit /\ [][GNext]_vars

\* C29: poll_read never writes past the buffer of the caller: for a chunk of
\* n bytes and a buffer of m bytes it returns without aborting, reports at
\* most m bytes, and the bytes that do not fit (n + 1 > m) come with later
\* reads, so that the caller has read every line when the stream has ended
C29_ReadFitsBuffer ==
    /\ gPc # "aborted"
    /\ gLast # None => TheOne(gLast).count <= Len(gBuf)
    /\ gPc = "ended" => gRead = LogLines(gTaken)

\* the part of C29 that the code keeps: a poll_read that returns reports no
\* more bytes than the buffer holds, and the caller has then read every
\* line of the chunks taken
ReturnedReadFitsBuffer ==
    gPc # "aborted" =>
        /\ gLast # None => TheOne(gLast).count <= Len(gBuf)
        /\ gRead = LogLines(gTaken)

\* the keys (kind, namespace, name) the store of the in-memory client holds
HeldKeys == {<<e.key.crd, e.key.ns, e.key.name>> : e \in mStore}

\* the keys created and not deleted since
MadeKeys == {e.known : e \in mMade}

\* the entries of the store under the key of the call
UnderKey(store, call) ==
    {e \in store : <<e.key.crd, e.key.ns, e.key.name>> = <<call.kind, call.ns, call.name>>}

\* what the call just made may have done to the store of the in-memory
\* client
StoreStep ==
    LET call == TheOne(mLast')
    IN /\ call.fn = "retrieve_item" => mStore' = mStore
       /\ call.fn = "delete_item" /\ call.result.ok =>
              /\ UnderKey(mStore, call) # {}
              /\ mStore' = mStore \ UnderKey(mStore, call)
       /\ call.fn \in {"delete_item", "update_status"} /\ UnderKey(mStore, call) = {} =>
              /\ call.result = MemNotFound
              /\ mStore' = mStore
       /\ call.fn \in {"delete_item", "update_status"} /\ call.result = MemNotFound =>
              /\ UnderKey(mStore, call) = {}
              /\ mStore' = mStore

\* C30: after any sequence of calls the store of the in-memory client holds
\* exactly the keys (kind, namespace, name) created and not deleted since: a
\* delete that succeeds removes its own key only, delete and update_status
\* of an absent key return NotFound and leave the store as it was, and
\* retrieve_item never changes the store
C30_StoreHoldsCreatedNotDeleted ==
    /\ [](HeldKeys = MadeKeys /\ Cardinality(mStore) = Cardinality(HeldKeys))
    /\ [][StoreStep]_vars

\* a delete has succeeded while another key stays in the store, and one
\* more key has been deleted before
C30_Witness ==
    /\ mLast # None
    /\ TheOne(mLast).fn = "delete_item"
    /\ TheOne(mLast).result.ok
    /\ Cardinality(HeldKeys) >= 2
    /\ <<TheOne(mLast).kind, TheOne(mLast).ns, TheOne(mLast).name>> \notin HeldKeys

====
